---- MODULE Spec2Model ----
(***************************************************************************)
(* Model of the FerroFlux playground graph editor: the pointer-driven      *)
(* interaction state machine of Canvas.svelte, the page-level graph store  *)
(* of +page.svelte with its asynchronous round-trips to the persistence    *)
(* collaborator, and the orthogonal wire router of utils/routing.ts.       *)
(*                                                                         *)
(* Units.  World coordinates are kept in HALF world units (a world value w *)
(* is stored as 2*w), so that the divisions by zoom of the handlers and    *)
(* the centre lines / mid points of the router stay exact integers.        *)
(* Screen coordinates and pan are in whole pixels.  zoom is kept in tenths *)
(* (zoom = 1 is stored as 10).                                             *)
(***************************************************************************)
EXTENDS Integers, Sequences, FiniteSets, TLC

(***************************************************************************)
(* Bounds of the model                                                     *)
(***************************************************************************)
MaxNodes == 3
MaxEdges == 1
MaxEvents == 3
MaxInFlight == 2
MaxCoord == 2
MaxUndo == 1

(***************************************************************************)
(* Program constants                                                       *)
(***************************************************************************)
ZoomMin10 == 1
ZoomMax10 == 50
PanThreshold == 2

NodeW == 4
NodeH == 4

NoNode == 0

NodeIds == 1..MaxNodes
EdgeIds == 1..MaxEdges
WireStyles == {"Cubic", "Linear", "Orthogonal"}

Max(a, b) == IF a >= b THEN a ELSE b
Min(a, b) == IF a <= b THEN a ELSE b
Abs(a) == IF a >= 0 THEN a ELSE -a

RECURSIVE SeqFilterOut(_, _)
\* s.filter(id => id !== x)
SeqFilterOut(s, x) ==
    IF s = <<>> THEN <<>>
    ELSE IF Head(s) = x THEN SeqFilterOut(Tail(s), x)
         ELSE <<Head(s)>> \o SeqFilterOut(Tail(s), x)

RECURSIVE SeqFilterIn(_, _)
\* s.filter(id => id \in S)
SeqFilterIn(s, S) ==
    IF s = <<>> THEN <<>>
    ELSE IF Head(s) \in S THEN <<Head(s)>> \o SeqFilterIn(Tail(s), S)
         ELSE SeqFilterIn(Tail(s), S)

Range(s) == {s[i] : i \in 1..Len(s)}

(***************************************************************************)
(* Types matching the serialisable graph                                   *)
(***************************************************************************)
\* inputs / outputs of the node the collaborator creates with id n
TemplateInputs(n) == <<2 * n - 1>>
TemplateOutputs(n) == <<2 * n>>

SerializableNode(n, pos) ==
    [id |-> n, position |-> pos, size |-> <<NodeW, NodeH>>,
     inputs |-> TemplateInputs(n), outputs |-> TemplateOutputs(n)]

SerializableEdge(e, from, to, style) ==
    [id |-> e, from |-> from, to |-> to, style |-> style]

EmptyMap == [k \in {} |-> 0]

\* let graph = $state<GraphState>({ nodes: {}, edges: {}, draw_order: [] })
EmptyGraph == [nodes |-> EmptyMap, edges |-> EmptyMap, draw_order |-> <<>>]

\* Object.keys(g.nodes)
NodeKeys(g) == DOMAIN g.nodes
EdgeKeys(g) == DOMAIN g.edges

\* m without the keys in S
MapWithout(m, S) == [k \in (DOMAIN m) \ S |-> m[k]]
\* m with key k set to v
MapWith(m, k, v) == [j \in (DOMAIN m) \cup {k} |-> IF j = k THEN v ELSE m[j]]

(***************************************************************************)
(* The persistence collaborator (the Tauri backend).  Its code is not part *)
(* of the front end; it is modelled from the interface the specification   *)
(* gives: each operation acts on the authoritative graph and either        *)
(* acknowledges or rejects.  A server state is [graph, undo, redo].        *)
(***************************************************************************)
\* the graph the backend holds when the front end is constructed
InitialServerGraph ==
    [nodes |-> [n \in {1, 2} |-> SerializableNode(n, <<(n - 1) * 2, (n - 1) * 2>>)],
     edges |-> EmptyMap,
     draw_order |-> <<1, 2>>]

InitialServer == [graph |-> InitialServerGraph, undo |-> <<>>, redo |-> <<>>]

FreeNodeIds(g) == NodeIds \ DOMAIN g.nodes
FreeEdgeIds(g) == EdgeIds \ DOMAIN g.edges
SmallestOf(S) == CHOOSE x \in S : \A y \in S : x <= y

\* the ports of the nodes in S
PortsOf(g, S) ==
    UNION {Range(g.nodes[n].inputs) \cup Range(g.nodes[n].outputs) :
           n \in S \cap DOMAIN g.nodes}

\* a committed mutation: the previous graph goes on the undo log (the
\* oldest entry is dropped beyond MaxUndo) and the redo log is emptied
Committed(sv, g) ==
    LET u == Append(sv.undo, sv.graph)
    IN [graph |-> g,
        undo |-> IF Len(u) > MaxUndo THEN Tail(u) ELSE u,
        redo |-> <<>>]

SrvAddNode(g, x, y) ==
    LET n == SmallestOf(FreeNodeIds(g))
    IN [g EXCEPT !.nodes = MapWith(g.nodes, n, SerializableNode(n, <<x, y>>)),
                 !.draw_order = Append(g.draw_order, n)]

SrvAddEdge(g, from, to, style) ==
    LET e == SmallestOf(FreeEdgeIds(g))
    IN [g EXCEPT !.edges = MapWith(g.edges, e, SerializableEdge(e, from, to, style))]

SrvUpdateNodePosition(g, n, x, y) ==
    [g EXCEPT !.nodes[n].position = <<x, y>>]

SrvBringToFront(g, n) ==
    [g EXCEPT !.draw_order = Append(SeqFilterOut(g.draw_order, n), n)]

SrvDeleteItems(g, ns, es) ==
    LET gone == PortsOf(g, ns)
        dead == {e \in DOMAIN g.edges :
                    e \in es \/ g.edges[e].from \in gone \/ g.edges[e].to \in gone}
    IN [nodes |-> MapWithout(g.nodes, ns),
        edges |-> MapWithout(g.edges, dead),
        draw_order |-> SeqFilterIn(g.draw_order, (DOMAIN g.nodes) \ ns)]

\* copy_items: the serialised clipboard is the number of nodes copied
SrvCopyItems(g, ns) == Cardinality(ns \cap DOMAIN g.nodes)

RECURSIVE SrvPasteItems(_, _, _, _)
SrvPasteItems(g, count, x, y) ==
    IF count = 0 THEN g
    ELSE SrvPasteItems(SrvAddNode(g, x, y), count - 1, x, y)

SrvSetStyle(g, e, style) == [g EXCEPT !.edges[e].style = style]
SrvSetAllStyles(g, style) ==
    [g EXCEPT !.edges = [e \in DOMAIN g.edges |-> [g.edges[e] EXCEPT !.style = style]]]

SrvUndo(sv) ==
    [graph |-> sv.undo[Len(sv.undo)],
     undo |-> SubSeq(sv.undo, 1, Len(sv.undo) - 1),
     redo |-> Append(sv.redo, sv.graph)]

SrvRedo(sv) ==
    [graph |-> sv.redo[Len(sv.redo)],
     undo |-> Append(sv.undo, sv.graph),
     redo |-> SubSeq(sv.redo, 1, Len(sv.redo) - 1)]

(***************************************************************************)
(* State                                                                   *)
(***************************************************************************)
VARIABLES
    \* +page.svelte
    graph, status,
    \* Canvas.svelte
    pan, zoom, isDraggingCanvas, draggingNodeId, selectedNodeIds,
    globalEdgeStyle, lastMousePos, internalClipboard,
    isBoxSelecting, boxStart, boxEnd, connectingFrom, tempEdgeEnd, wasPanned,
    \* invoke(): the calls in flight
    pending,
    \* the number of input events handled so far
    events,
    \* the collaborator
    server,
    \* what the last step did: the handler that ran and the call it issued
    last,
    \* utils/routing.ts: the call of getSmartOrthogonalPath in progress
    router,
    \* what the template of Canvas.svelte has drawn last: the edges and the temporary edge
    drawn,
    \* history: the store as it was when the undo now under way was issued
    beforeUndo,
    \* history: the node being dragged, its position at pointer-down and the
    \* sum of the displacements its pointer-moves have asked for since
    dragStart

pageVars == <<graph, status>>
gestureVars == <<isDraggingCanvas, draggingNodeId, isBoxSelecting, connectingFrom, tempEdgeEnd>>
viewVars == <<pan, zoom, wasPanned>>
boxVars == <<boxStart, boxEnd>>
canvasVars == <<gestureVars, viewVars, boxVars, selectedNodeIds, globalEdgeStyle,
                lastMousePos, internalClipboard>>
editorVars == <<pageVars, canvasVars, pending, events, server, last>>
vars == <<editorVars, router, drawn, beforeUndo, dragStart>>

(***************************************************************************)
(* invoke(): a call in flight.  stage is "sent" until the collaborator has *)
(* handled it, then "ok" or "err" until its promise settles in the page.   *)
(* after names what the awaiting handler still has to do.                  *)
(***************************************************************************)
BlankCall ==
    [id |-> 0, op |-> "", stage |-> "sent", after |-> "",
     node |-> NoNode, x |-> 0, y |-> 0, from |-> 0, to |-> 0,
     ids |-> {}, edge |-> 0, style |-> "", json |-> 0,
     reply |-> EmptyGraph, clip |-> 0]

NewId == SmallestOf((1..(Cardinality(pending) + 1)) \ {c.id : c \in pending})

Invoke(op, after) == [BlankCall EXCEPT !.id = NewId, !.op = op, !.after = after]

NoStep == [handler |-> "", issued |-> BlankCall, settled |-> BlankCall, before |-> EmptyGraph]
Step(h) == [NoStep EXCEPT !.handler = h]
StepIssuing(h, c) == [NoStep EXCEPT !.handler = h, !.issued = c]
\* a settled get_graph also records the store it found
StepSettling(c, n, g) ==
    [handler |-> "settle", issued |-> n, settled |-> c,
     before |-> IF c.op = "get_graph" THEN g ELSE EmptyGraph]

\* room for one more call in flight
CanCall == Cardinality(pending) < MaxInFlight

Issue(c) == pending' = pending \cup {c}
NoCall == UNCHANGED pending

(***************************************************************************)
(* Canvas.svelte: geometry helpers                                         *)
(***************************************************************************)
Vec2(x, y) == [x |-> x, y |-> y]

\* v / zoom for a pixel amount v, in half world units
DivZoom(v, z) == (v * 20) \div z

\* canvasElement.getBoundingClientRect(): the canvas is at the window origin
RectLeft == 0
RectTop == 0

ScreenToWorldAt(sx, sy, p, z) ==
    Vec2(DivZoom(sx - RectLeft - p.x, z), DivZoom(sy - RectTop - p.y, z))

screenToWorld(sx, sy) == ScreenToWorldAt(sx, sy, pan, zoom)

\* the nodes in drawing order (the ids of the nodes handed to the renderer)
getNodes(g) ==
    IF Len(g.draw_order) > 0
    THEN SeqFilterIn(g.draw_order, DOMAIN g.nodes)
    ELSE LET RECURSIVE Enum(_)
             Enum(S) == IF S = {} THEN <<>>
                        ELSE <<SmallestOf(S)>> \o Enum(S \ {SmallestOf(S)})
         IN Enum(DOMAIN g.nodes)

Rendered(g) == Range(getNodes(g))

(***************************************************************************)
(* Canvas.svelte: pointer handlers                                         *)
(***************************************************************************)
\* faulty variant: the zoom is not clamped
OnWheelZoomUnclamped(fnum, fden, cx, cy) ==
    LET newZoom == (zoom * fnum) \div fden
        mouseX == cx - RectLeft
        mouseY == cy - RectTop
    IN /\ zoom' = newZoom
       /\ pan' = Vec2(mouseX - ((mouseX - pan.x) * newZoom) \div zoom,
                      mouseY - ((mouseY - pan.y) * newZoom) \div zoom)

\* faulty variant: the zoom changes and the pan stays
OnWheelZoomKeepsPan(fnum, fden, cx, cy) ==
    /\ zoom' = Max(ZoomMin10, Min(ZoomMax10, (zoom * fnum) \div fden))
    /\ pan' = pan

\* e.ctrlKey || e.shiftKey: factor = 1.1^delta is the event's zoom factor fnum/fden
OnWheelZoom(fnum, fden, cx, cy) ==
    LET newZoom == Max(ZoomMin10, Min(ZoomMax10, (zoom * fnum) \div fden))
        mouseX == cx - RectLeft
        mouseY == cy - RectTop
    IN /\ zoom' = newZoom
       /\ pan' = Vec2(mouseX - ((mouseX - pan.x) * newZoom) \div zoom,
                      mouseY - ((mouseY - pan.y) * newZoom) \div zoom)

\* faulty variant: the modifier keys are not looked at, every wheel event zooms
OnWheelIgnoresModifier(isZoom, fnum, fden, deltaX, deltaY, cx, cy) ==
    /\ OnWheelZoom(fnum, fden, cx, cy)
    /\ last' = Step("onWheel")
    /\ NoCall
    /\ UNCHANGED <<pageVars, gestureVars, boxVars, wasPanned, selectedNodeIds,
                   globalEdgeStyle, lastMousePos, internalClipboard, server>>

OnWheel(isZoom, fnum, fden, deltaX, deltaY, cx, cy) ==
    /\ IF isZoom
       THEN OnWheelZoom(fnum, fden, cx, cy)
       ELSE /\ pan' = Vec2(pan.x - deltaX, pan.y - deltaY)
            /\ zoom' = zoom
    /\ last' = Step("onWheel")
    /\ NoCall
    /\ UNCHANGED <<pageVars, gestureVars, boxVars, wasPanned, selectedNodeIds,
                   globalEdgeStyle, lastMousePos, internalClipboard, server>>

\* faulty variant: the middle button does not pan
PanButtonSecondaryOnly(button) == button = 2

\* e.button === 2 || e.button === 1
PanButton(button) == button = 2 \/ button = 1

\* faulty variant: the selection is cleared whether or not shift is held
CanvasDownSelectionCleared(sel, shiftKey) == {}

\* if (!e.shiftKey) selectedNodeIds.clear()
CanvasDownSelection(sel, shiftKey) == IF ~shiftKey THEN {} ELSE sel

OnMouseDown(button, shiftKey, cx, cy) ==
    /\ IF PanButton(button)
       THEN /\ isDraggingCanvas' = TRUE
            /\ wasPanned' = FALSE
            /\ UNCHANGED <<selectedNodeIds, isBoxSelecting, boxVars>>
       ELSE IF button = 0
       THEN /\ selectedNodeIds' = CanvasDownSelection(selectedNodeIds, shiftKey)
            /\ isBoxSelecting' = TRUE
            /\ boxStart' = Vec2(cx, cy)
            /\ boxEnd' = Vec2(cx, cy)
            /\ UNCHANGED <<isDraggingCanvas, wasPanned>>
       ELSE UNCHANGED <<isDraggingCanvas, wasPanned, selectedNodeIds,
                        isBoxSelecting, boxVars>>
    /\ last' = Step("onMouseDown")
    /\ NoCall
    /\ UNCHANGED <<pageVars, draggingNodeId, connectingFrom, tempEdgeEnd, pan, zoom,
                   globalEdgeStyle, lastMousePos, internalClipboard, server>>

\* faulty variant: the pressed node always becomes the whole selection
NodeDownSelectionReplaced(sel, nodeId, shiftKey) == {nodeId}

\* the selection after a pointer-down on a node body
NodeDownSelection(sel, nodeId, shiftKey) ==
    IF shiftKey
    THEN IF nodeId \in sel THEN sel \ {nodeId} ELSE sel \cup {nodeId}
    ELSE IF nodeId \notin sel THEN {nodeId} ELSE sel

OnNodeMouseDown(shiftKey, nodeId) ==
    /\ nodeId \in Rendered(graph)
    /\ CanCall
    /\ draggingNodeId' = nodeId
    /\ selectedNodeIds' = NodeDownSelection(selectedNodeIds, nodeId, shiftKey)
    /\ LET c == [Invoke("bring_to_front", "bringToFront") EXCEPT !.node = nodeId]
       IN Issue(c) /\ last' = StepIssuing("onNodeMouseDown", c)
    /\ UNCHANGED <<pageVars, isDraggingCanvas, isBoxSelecting, connectingFrom,
                   tempEdgeEnd, viewVars, boxVars, globalEdgeStyle, lastMousePos,
                   internalClipboard, server>>

\* Node.svelte: the ports a node shows, each with the isOutput flag its handlers pass
ShownPorts(g) ==
    UNION {{<<n, g.nodes[n].inputs[i], FALSE>> : i \in 1..Len(g.nodes[n].inputs)} \cup
           {<<n, g.nodes[n].outputs[i], TRUE>> : i \in 1..Len(g.nodes[n].outputs)} :
           n \in Rendered(g)}

OnPortMouseDown(nodeId, portId, isOutput, cx, cy) ==
    /\ <<nodeId, portId, isOutput>> \in ShownPorts(graph)
    /\ connectingFrom' = <<[nodeId |-> nodeId, portId |-> portId, isOutput |-> isOutput]>>
    /\ tempEdgeEnd' = <<screenToWorld(cx, cy)>>
    /\ last' = Step("onPortMouseDown")
    /\ NoCall
    /\ UNCHANGED <<pageVars, isDraggingCanvas, draggingNodeId, isBoxSelecting,
                   viewVars, boxVars, selectedNodeIds, globalEdgeStyle, lastMousePos,
                   internalClipboard, server>>

\* the nodes a pointer-move drags
DragTargets(g, id) == IF id # NoNode /\ id \in DOMAIN g.nodes THEN {id} ELSE {}

\* faulty variant: the displacement stretches the node instead of moving it
MoveNodesResizing(g, S, dx, dy) ==
    [g EXCEPT !.nodes =
        [n \in DOMAIN g.nodes |->
            IF n \in S
            THEN [g.nodes[n] EXCEPT !.size = <<@[1] + dx, @[2] + dy>>]
            ELSE g.nodes[n]]]

\* faulty variant: the displacement is applied twice
MoveNodesTwice(g, S, dx, dy) ==
    [g EXCEPT !.nodes =
        [n \in DOMAIN g.nodes |->
            IF n \in S
            THEN [g.nodes[n] EXCEPT !.position = <<@[1] + 2 * dx, @[2] + 2 * dy>>]
            ELSE g.nodes[n]]]

\* node.position[0] += dx; node.position[1] += dy
MoveNodes(g, S, dx, dy) ==
    [g EXCEPT !.nodes =
        [n \in DOMAIN g.nodes |->
            IF n \in S
            THEN [g.nodes[n] EXCEPT !.position = <<@[1] + dx, @[2] + dy>>]
            ELSE g.nodes[n]]]

OnMouseMove(cx, cy, movementX, movementY) ==
    /\ lastMousePos' = screenToWorld(cx, cy)
    /\ IF DragTargets(graph, draggingNodeId) # {}
       THEN /\ graph' = MoveNodes(graph, DragTargets(graph, draggingNodeId),
                                  DivZoom(movementX, zoom), DivZoom(movementY, zoom))
            /\ UNCHANGED <<boxEnd, pan, wasPanned, tempEdgeEnd>>
       ELSE IF isBoxSelecting
       THEN /\ boxEnd' = Vec2(cx, cy)
            /\ UNCHANGED <<graph, pan, wasPanned, tempEdgeEnd>>
       ELSE IF isDraggingCanvas
       THEN /\ pan' = Vec2(pan.x + movementX, pan.y + movementY)
            /\ wasPanned' = (wasPanned \/ Abs(movementX) > PanThreshold
                                       \/ Abs(movementY) > PanThreshold)
            /\ UNCHANGED <<graph, boxEnd, tempEdgeEnd>>
       ELSE IF connectingFrom # <<>>
       THEN /\ tempEdgeEnd' = <<screenToWorld(cx, cy)>>
            /\ UNCHANGED <<graph, boxEnd, pan, wasPanned>>
       ELSE UNCHANGED <<graph, boxEnd, pan, wasPanned, tempEdgeEnd>>
    /\ last' = Step("onMouseMove")
    /\ NoCall
    /\ UNCHANGED <<status, isDraggingCanvas, draggingNodeId, isBoxSelecting,
                   connectingFrom, zoom, boxStart, selectedNodeIds, globalEdgeStyle,
                   internalClipboard, server>>

\* faulty variant: only the nodes that lie wholly in the rectangle are taken
BoxHitsContained(g, bs, be, p, z) ==
    LET s == ScreenToWorldAt(bs.x, bs.y, p, z)
        e == ScreenToWorldAt(be.x, be.y, p, z)
    IN {n \in DOMAIN g.nodes :
          /\ g.nodes[n].position[1] >= Min(s.x, e.x)
          /\ g.nodes[n].position[1] + g.nodes[n].size[1] <= Max(s.x, e.x)
          /\ g.nodes[n].position[2] >= Min(s.y, e.y)
          /\ g.nodes[n].position[2] + g.nodes[n].size[2] <= Max(s.y, e.y)}

\* the nodes whose bounding box intersects the selection rectangle
BoxHits(g, bs, be, p, z) ==
    LET s == ScreenToWorldAt(bs.x, bs.y, p, z)
        e == ScreenToWorldAt(be.x, be.y, p, z)
        minX == Min(s.x, e.x)
        maxX == Max(s.x, e.x)
        minY == Min(s.y, e.y)
        maxY == Max(s.y, e.y)
    IN {n \in DOMAIN g.nodes :
          /\ g.nodes[n].position[1] < maxX
          /\ g.nodes[n].position[1] + g.nodes[n].size[1] > minX
          /\ g.nodes[n].position[2] < maxY
          /\ g.nodes[n].position[2] + g.nodes[n].size[2] > minY}

\* faulty variant: the dragged node is not forgotten
MouseUpRestKeepsDrag ==
    /\ selectedNodeIds' =
          IF isBoxSelecting
          THEN selectedNodeIds \cup BoxHits(graph, boxStart, boxEnd, pan, zoom)
          ELSE selectedNodeIds
    /\ isDraggingCanvas' = FALSE
    /\ draggingNodeId' = draggingNodeId
    /\ connectingFrom' = <<>>
    /\ tempEdgeEnd' = <<>>
    /\ isBoxSelecting' = FALSE

\* onMouseUp from the box-select block to its end
MouseUpRest ==
    /\ selectedNodeIds' =
          IF isBoxSelecting
          THEN selectedNodeIds \cup BoxHits(graph, boxStart, boxEnd, pan, zoom)
          ELSE selectedNodeIds
    /\ isDraggingCanvas' = FALSE
    /\ draggingNodeId' = NoNode
    /\ connectingFrom' = <<>>
    /\ tempEdgeEnd' = <<>>
    /\ isBoxSelecting' = FALSE

\* faulty variant: the commit carries x only
CommitCallNoY(g, id) ==
    [Invoke("update_node_position", "mouseUpRest") EXCEPT
        !.node = id, !.x = g.nodes[id].position[1]]

\* the commit intent of a pointer-up
CommitCall(g, id) ==
    [Invoke("update_node_position", "mouseUpRest") EXCEPT
        !.node = id, !.x = g.nodes[id].position[1], !.y = g.nodes[id].position[2]]

onMouseUp(h) ==
    /\ IF draggingNodeId # NoNode /\ draggingNodeId \in DOMAIN graph.nodes
       THEN /\ CanCall
            /\ LET c == CommitCall(graph, draggingNodeId)
               IN Issue(c) /\ last' = StepIssuing(h, c)
            /\ UNCHANGED <<gestureVars, selectedNodeIds>>
       ELSE /\ MouseUpRest
            /\ last' = Step(h)
            /\ NoCall
    /\ UNCHANGED <<pageVars, viewVars, boxVars, globalEdgeStyle, lastMousePos,
                   internalClipboard, server>>

OnMouseUp == onMouseUp("onMouseUp")

\* faulty variant: the drag's source always becomes the edge's from
EdgeIntentUnordered(cf, portId) == [from |-> cf.portId, to |-> portId]

\* the edge a released connection asks for
EdgeIntent(cf, portId) ==
    [from |-> IF cf.isOutput THEN cf.portId ELSE portId,
     to |-> IF cf.isOutput THEN portId ELSE cf.portId]

\* faulty variant: the direction test is dropped
ValidConnectionNoDirection(cf, portId, isOutput) == cf.portId # portId

ValidConnection(cf, portId, isOutput) ==
    cf.isOutput # isOutput /\ cf.portId # portId

OnPortMouseUp(nodeId, portId, isOutput) ==
    /\ <<nodeId, portId, isOutput>> \in ShownPorts(graph)
    /\ IF connectingFrom = <<>>
       THEN \* returns before stopPropagation: the event reaches the canvas
            onMouseUp("onPortMouseUp/onMouseUp")
       ELSE /\ IF ValidConnection(connectingFrom[1], portId, isOutput)
               THEN /\ CanCall
                    /\ LET i == EdgeIntent(connectingFrom[1], portId)
                           c == [Invoke("add_edge", "addEdge") EXCEPT
                                    !.from = i.from, !.to = i.to]
                       IN Issue(c) /\ last' = StepIssuing("onPortMouseUp", c)
                    /\ UNCHANGED <<connectingFrom, tempEdgeEnd>>
               ELSE /\ connectingFrom' = <<>>
                    /\ tempEdgeEnd' = <<>>
                    /\ last' = Step("onPortMouseUp")
                    /\ NoCall
            /\ UNCHANGED <<pageVars, isDraggingCanvas, draggingNodeId, isBoxSelecting,
                           viewVars, boxVars, selectedNodeIds, globalEdgeStyle,
                           lastMousePos, internalClipboard, server>>

(***************************************************************************)
(* Canvas.svelte: keyboard, toolbar, drop and edge-click handlers          *)
(***************************************************************************)
\* a handler that only issues one call
IssueOnly(h, c) ==
    /\ CanCall
    /\ Issue(c)
    /\ last' = StepIssuing(h, c)

Nothing(h) == last' = Step(h) /\ NoCall

onUndo(h) == IssueOnly(h, Invoke("undo", "refresh"))
\* faulty variant: onRedo forgets its onRefresh()
onRedoWithoutRefresh(h) == IssueOnly(h, Invoke("redo", "none"))

onRedo(h) == IssueOnly(h, Invoke("redo", "refresh"))

onCopy(h) ==
    IF selectedNodeIds = {} THEN Nothing(h)
    ELSE IssueOnly(h, [Invoke("copy_items", "copy") EXCEPT !.ids = selectedNodeIds])

onPaste(h) ==
    IF internalClipboard = <<>> THEN Nothing(h)
    ELSE IssueOnly(h, [Invoke("paste_items", "refresh") EXCEPT
                          !.json = internalClipboard[1],
                          !.x = lastMousePos.x, !.y = lastMousePos.y])

\* faulty variant: the intent carries every node of the store
onDeleteEverything(h) ==
    IF selectedNodeIds = {} THEN Nothing(h)
    ELSE IssueOnly(h, [Invoke("delete_items", "deleteDone") EXCEPT !.ids = DOMAIN graph.nodes])

onDelete(h) ==
    IF selectedNodeIds = {} THEN Nothing(h)
    ELSE IssueOnly(h, [Invoke("delete_items", "deleteDone") EXCEPT !.ids = selectedNodeIds])

\* faulty variant: the shift key is not looked at, Z always asks for an undo
OnKeyDownIgnoresShift(key, isMod, shiftKey) ==
    /\ IF isMod /\ key = "z" THEN onUndo("onKeyDown")
       ELSE IF isMod /\ key = "c" THEN onCopy("onKeyDown")
       ELSE IF isMod /\ key = "v" THEN onPaste("onKeyDown")
       ELSE IF key = "Delete" \/ key = "Backspace" THEN onDelete("onKeyDown")
       ELSE Nothing("onKeyDown")
    /\ UNCHANGED <<pageVars, canvasVars, server>>

\* key is e.key.toLowerCase() for the letter keys
OnKeyDown(key, isMod, shiftKey) ==
    /\ IF isMod /\ key = "z"
       THEN IF shiftKey THEN onRedo("onKeyDown") ELSE onUndo("onKeyDown")
       ELSE IF isMod /\ key = "c" THEN onCopy("onKeyDown")
       ELSE IF isMod /\ key = "v" THEN onPaste("onKeyDown")
       ELSE IF key = "Delete" \/ key = "Backspace" THEN onDelete("onKeyDown")
       ELSE Nothing("onKeyDown")
    /\ UNCHANGED <<pageVars, canvasVars, server>>

\* Toolbar: on:undo, on:redo
OnToolbarUndo == onUndo("onUndo") /\ UNCHANGED <<pageVars, canvasVars, server>>
OnToolbarRedo == onRedo("onRedo") /\ UNCHANGED <<pageVars, canvasVars, server>>

\* Toolbar: on:setStyle
setGlobalStyle(style) ==
    /\ globalEdgeStyle' = style
    /\ IssueOnly("setGlobalStyle",
                 [Invoke("set_all_connection_wire_styles", "refresh") EXCEPT !.style = style])
    /\ UNCHANGED <<pageVars, gestureVars, viewVars, boxVars, selectedNodeIds,
                   lastMousePos, internalClipboard, server>>

\* findPortPosition(nodes, portId) is not null
PortFound(g, portId) ==
    \E n \in Rendered(g) :
        portId \in Range(g.nodes[n].inputs) \cup Range(g.nodes[n].outputs)

NextStyle(currentStyle) ==
    CASE currentStyle = "Cubic" -> "Linear"
      [] currentStyle = "Linear" -> "Orthogonal"
      [] OTHER -> "Cubic"

\* a click on a drawn edge
cycleEdgeStyle(edgeId) ==
    /\ edgeId \in DOMAIN graph.edges
    /\ PortFound(graph, graph.edges[edgeId].from)
    /\ PortFound(graph, graph.edges[edgeId].to)
    /\ IssueOnly("cycleEdgeStyle",
                 [Invoke("set_connection_wire_style", "refresh") EXCEPT
                     !.edge = edgeId, !.style = NextStyle(graph.edges[edgeId].style)])
    /\ UNCHANGED <<pageVars, canvasVars, server>>

\* ondrop of a tray node (data.__ferroflux)
OnDrop(cx, cy) ==
    /\ LET w == screenToWorld(cx, cy)
       IN IssueOnly("ondrop", [Invoke("add_node", "refresh") EXCEPT !.x = w.x, !.y = w.y])
    /\ UNCHANGED <<pageVars, canvasVars, server>>

(***************************************************************************)
(* The collaborator handles a call in flight                               *)
(***************************************************************************)
\* can the collaborator carry the call out on server state sv
SrvAccepts(sv, c) ==
    LET g == sv.graph
    IN CASE c.op = "add_node" -> FreeNodeIds(g) # {}
         [] c.op = "add_edge" -> FreeEdgeIds(g) # {}
         [] c.op = "update_node_position" -> c.node \in DOMAIN g.nodes
         [] c.op = "bring_to_front" -> c.node \in DOMAIN g.nodes
         [] c.op = "paste_items" -> Cardinality(FreeNodeIds(g)) >= c.json
         [] c.op = "undo" -> sv.undo # <<>>
         [] c.op = "redo" -> sv.redo # <<>>
         [] c.op = "set_connection_wire_style" -> c.edge \in DOMAIN g.edges
         [] OTHER -> TRUE

\* the server state after the call
SrvEffect(sv, c) ==
    LET g == sv.graph
    IN CASE c.op = "add_node" -> Committed(sv, SrvAddNode(g, c.x, c.y))
         [] c.op = "add_edge" -> Committed(sv, SrvAddEdge(g, c.from, c.to, "Cubic"))
         [] c.op = "update_node_position" ->
                Committed(sv, SrvUpdateNodePosition(g, c.node, c.x, c.y))
         [] c.op = "bring_to_front" -> [sv EXCEPT !.graph = SrvBringToFront(g, c.node)]
         [] c.op = "delete_items" -> Committed(sv, SrvDeleteItems(g, c.ids, {}))
         [] c.op = "paste_items" -> Committed(sv, SrvPasteItems(g, c.json, c.x, c.y))
         [] c.op = "undo" -> SrvUndo(sv)
         [] c.op = "redo" -> SrvRedo(sv)
         [] c.op = "set_connection_wire_style" ->
                Committed(sv, SrvSetStyle(g, c.edge, c.style))
         [] c.op = "set_all_connection_wire_styles" ->
                Committed(sv, SrvSetAllStyles(g, c.style))
         [] OTHER -> sv

\* the call once acknowledged, carrying what the collaborator returns
Acknowledged(sv, c) ==
    [c EXCEPT !.stage = "ok",
              !.reply = IF c.op = "get_graph" THEN sv.graph ELSE EmptyGraph,
              !.clip = IF c.op = "copy_items" THEN SrvCopyItems(sv.graph, c.ids) ELSE 0]

ServerAck(c) ==
    /\ c \in pending
    /\ c.stage = "sent"
    /\ SrvAccepts(server, c)
    /\ server' = SrvEffect(server, c)
    /\ pending' = (pending \ {c}) \cup {Acknowledged(server, c)}
    /\ last' = Step("serverAck")
    /\ events' = events
    /\ UNCHANGED <<pageVars, canvasVars>>

\* a round-trip may fail for any call
ServerReject(c) ==
    /\ c \in pending
    /\ c.stage = "sent"
    /\ pending' = (pending \ {c}) \cup {[c EXCEPT !.stage = "err"]}
    /\ last' = Step("serverReject")
    /\ events' = events
    /\ UNCHANGED <<pageVars, canvasVars, server>>

(***************************************************************************)
(* +page.svelte                                                            *)
(***************************************************************************)
Status(text, n) == [text |-> text, n |-> n]

\* faulty variant: the snapshot is merged into the store, local positions winning
RefreshedGraphMerged(g, c) ==
    IF c.stage = "ok"
    THEN [c.reply EXCEPT !.nodes =
            [n \in DOMAIN c.reply.nodes |->
                IF n \in DOMAIN g.nodes
                THEN [c.reply.nodes[n] EXCEPT !.position = g.nodes[n].position]
                ELSE c.reply.nodes[n]]]
    ELSE g

\* faulty variant: a failed refresh empties the store
RefreshedGraphDroppedOnError(g, c) == IF c.stage = "ok" THEN c.reply ELSE EmptyGraph

\* refreshGraph after its await: the store and the status it leaves
RefreshedGraph(g, c) == IF c.stage = "ok" THEN c.reply ELSE g

RefreshedStatus(c) ==
    IF c.stage = "ok"
    THEN Status("Ready. Nodes: ", Cardinality(DOMAIN c.reply.nodes))
    ELSE Status("Error: ", 0)

\* faulty variant: the id is appended without being taken out first
BroughtToFrontDuplicated(g, nodeId) ==
    [g EXCEPT !.draw_order = Append(g.draw_order, nodeId)]

\* graph.draw_order = [...graph.draw_order.filter(id => id !== nodeId), nodeId]
BroughtToFront(g, nodeId) ==
    [g EXCEPT !.draw_order = Append(SeqFilterOut(g.draw_order, nodeId), nodeId)]

\* faulty variant: onDelete forgets its onRefresh()
RefreshesAfterButDelete == {"refresh", "addEdge", "init"}

\* the handlers that call onRefresh() once their own call is acknowledged
RefreshesAfter == {"refresh", "deleteDone", "addEdge", "init"}

\* what the awaiting handler calls next, if anything
FollowUp(c) ==
    IF c.stage = "ok" /\ c.op # "get_graph" /\ c.after \in RefreshesAfter
    THEN {[Invoke("get_graph", IF c.after = "addEdge" THEN "clearConnect" ELSE "none")
              EXCEPT !.id = c.id]}
    ELSE {}

(***************************************************************************)
(* A promise settles: the handler awaiting call c resumes                  *)
(***************************************************************************)
Settle(c) ==
    /\ c \in pending
    /\ c.stage \in {"ok", "err"}
    /\ pending' = (pending \ {c}) \cup FollowUp(c)
    /\ events' = events
    /\ last' = StepSettling(c, IF FollowUp(c) = {} THEN BlankCall
                               ELSE CHOOSE n \in FollowUp(c) : TRUE, graph)
    /\ graph' = IF c.op = "get_graph" THEN RefreshedGraph(graph, c)
                ELSE IF c.op = "bring_to_front" /\ c.stage = "ok"
                THEN BroughtToFront(graph, c.node)
                ELSE graph
    /\ status' = IF c.op = "get_graph" THEN RefreshedStatus(c)
                 ELSE IF c.op = "init_sdk"
                 THEN (IF c.stage = "ok" THEN Status("Fetching Graph...", 0)
                       ELSE Status("Init Error: ", 0))
                 ELSE status
    /\ internalClipboard' = IF c.op = "copy_items" /\ c.stage = "ok"
                            THEN <<c.clip>> ELSE internalClipboard
    /\ IF c.op = "update_node_position"
       THEN MouseUpRest
       ELSE /\ selectedNodeIds' = IF c.op = "delete_items" /\ c.stage = "ok"
                                  THEN {} ELSE selectedNodeIds
            /\ IF \/ c.op = "add_edge" /\ c.stage = "err"
                  \/ c.op = "get_graph" /\ c.after = "clearConnect"
               THEN connectingFrom' = <<>> /\ tempEdgeEnd' = <<>>
               ELSE UNCHANGED <<connectingFrom, tempEdgeEnd>>
            /\ UNCHANGED <<isDraggingCanvas, draggingNodeId, isBoxSelecting>>
    /\ UNCHANGED <<viewVars, boxVars, globalEdgeStyle, lastMousePos, server>>

(***************************************************************************)
(* utils/routing.ts: getSmartOrthogonalPath.  All lengths are in half      *)
(* world units: outset 20 is 40, buffer 20 is 40, and so on.               *)
(***************************************************************************)
Outset == 40
DefaultBuffer == 40
BypassMargin == 200
SecondLane == 40
DockRadius == 10
ProximityFactor == 3
TurnPenalty == 300
NearTolerance == 2

\* Math.round on a value given in half units
Round(v) == 2 * ((v + 1) \div 2)

Manhattan(p, q) == Abs(p.x - q.x) + Abs(p.y - q.y)

Obstacle(x1, y1, x2, y2) == [min |-> Vec2(x1, y1), max |-> Vec2(x2, y2)]

RECURSIVE SortedSeq(_)
\* [...new Set(values)].sort((a, b) => a - b)
SortedSeq(S) ==
    IF S = {} THEN <<>>
    ELSE LET m == SmallestOf(S) IN <<m>> \o SortedSeq(S \ {m})

\* the x (axis = "x") or y lines of the search grid, sorted and de-duplicated
Grid(axis, pStart, pEnd, obstacles, buffer) ==
    LET lo(o) == IF axis = "x" THEN o.min.x ELSE o.min.y
        hi(o) == IF axis = "x" THEN o.max.x ELSE o.max.y
        a == IF axis = "x" THEN pStart.x ELSE pStart.y
        b == IF axis = "x" THEN pEnd.x ELSE pEnd.y
        obs == Range(obstacles)
        minV == SmallestOf({a, b} \cup {lo(o) : o \in obs})
        maxV == CHOOSE v \in {a, b} \cup {hi(o) : o \in obs} :
                   \A w \in {a, b} \cup {hi(o) : o \in obs} : w <= v
        raw == {a, b, minV - BypassMargin, maxV + BypassMargin}
               \cup {lo(o) - buffer : o \in obs} \cup {hi(o) + buffer : o \in obs}
               \cup {lo(o) - buffer - SecondLane : o \in obs}
               \cup {hi(o) + buffer + SecondLane : o \in obs}
               \* (min + max) / 2 of world values, in half units
               \cup {(lo(o) + hi(o)) \div 2 : o \in obs}
    IN SortedSeq({Round(v) : v \in raw})

\* the index of the entry of arr nearest to val, the first one on a tie
findClosest(val, arr) ==
    CHOOSE i \in 1..Len(arr) :
        /\ \A j \in 1..Len(arr) : Abs(arr[i] - val) <= Abs(arr[j] - val)
        /\ \A j \in 1..(i - 1) : Abs(arr[j] - val) > Abs(arr[i] - val)

\* p.x >= obs.min.x && p.x <= obs.max.x && p.y >= obs.min.y && p.y <= obs.max.y
isInside(p, obs) ==
    p.x >= obs.min.x /\ p.x <= obs.max.x /\ p.y >= obs.min.y /\ p.y <= obs.max.y

\* faulty variant: the docking exemption reaches far beyond the anchors
BlockedWideDock(nPos, mPos, pStart, pEnd, obstacles) ==
    \E o \in Range(obstacles) :
        /\ isInside(nPos, o) \/ isInside(mPos, o)
        /\ ~(Manhattan(nPos, pStart) < 100 * DockRadius
             \/ Manhattan(nPos, pEnd) < 100 * DockRadius)

\* is the step to nPos (mid point mPos) blocked by an obstacle
Blocked(nPos, mPos, pStart, pEnd, obstacles) ==
    \E o \in Range(obstacles) :
        /\ isInside(nPos, o) \/ isInside(mPos, o)
        /\ ~(Manhattan(nPos, pStart) < DockRadius \/ Manhattan(nPos, pEnd) < DockRadius)

\* the obstacles whose buffer zone holds nPos, one per index
NearObstacles(nPos, obstacles, buffer) ==
    {k \in 1..Len(obstacles) :
        /\ nPos.x > obstacles[k].min.x - buffer
        /\ nPos.x < obstacles[k].max.x + buffer
        /\ nPos.y > obstacles[k].min.y - buffer
        /\ nPos.y < obstacles[k].max.y + buffer}

StepCost(cPos, nPos, cDir, nDir, obstacles, buffer) ==
    LET dist == Manhattan(nPos, cPos)
    IN dist + Cardinality(NearObstacles(nPos, obstacles, buffer)) * dist * ProximityFactor
            + (IF cDir # 0 /\ cDir # nDir THEN TurnPenalty ELSE 0)

\* neighbours in the order Right (1), Left (2), Down (3), Up (4)
NeighbourOf(cx, cy, d) ==
    CASE d = 1 -> <<cx + 1, cy>>
      [] d = 2 -> <<cx - 1, cy>>
      [] d = 3 -> <<cx, cy + 1>>
      [] d = 4 -> <<cx, cy - 1>>

Reversal(cDir, nDir) ==
    /\ cDir # 0
    /\ \/ cDir = 1 /\ nDir = 2
       \/ cDir = 2 /\ nDir = 1
       \/ cDir = 3 /\ nDir = 4
       \/ cDir = 4 /\ nDir = 3

\* the state of one call of getSmartOrthogonalPath
RouterCall(start, end, obstacles, buffer) ==
    [pc |-> "call", start |-> start, end |-> end, obstacles |-> obstacles,
     buffer |-> buffer, xs |-> <<>>, ys |-> <<>>, openSet |-> <<>>,
     gScore |-> EmptyMap, cameFrom |-> EmptyMap, found |-> FALSE, path |-> <<>>]

NoRouterCall == [RouterCall(Vec2(0, 0), Vec2(0, 0), <<>>, DefaultBuffer) EXCEPT !.pc = "idle"]

pStartOf(r) == Vec2(r.start.x + Outset, r.start.y)
pEndOf(r) == Vec2(r.end.x - Outset, r.end.y)
startCell(r) == <<findClosest(pStartOf(r).x, r.xs), findClosest(pStartOf(r).y, r.ys)>>
endCell(r) == <<findClosest(pEndOf(r).x, r.xs), findClosest(pEndOf(r).y, r.ys)>>
CellPos(r, c) == Vec2(r.xs[c[1]], r.ys[c[2]])

\* the entry of the open set that sort-by-f then shift takes: the least f,
\* the earliest pushed among equals (the sort is stable)
Shifted(openSet) ==
    CHOOSE k \in 1..Len(openSet) :
        /\ \A j \in 1..Len(openSet) : openSet[k].f <= openSet[j].f
        /\ \A j \in 1..(k - 1) : openSet[j].f > openSet[k].f

WithoutIndex(seq, k) == SubSeq(seq, 1, k - 1) \o SubSeq(seq, k + 1, Len(seq))

\* the body of the neighbour loop for direction nDir, applied to the search
\* state acc = [openSet, gScore, cameFrom]
Relax(r, acc, cur, nDir) ==
    LET n == NeighbourOf(cur.x, cur.y, nDir)
        c == <<cur.x, cur.y>>
    IN IF n[1] < 1 \/ n[1] > Len(r.xs) \/ n[2] < 1 \/ n[2] > Len(r.ys) THEN acc
       ELSE IF Reversal(cur.dir, nDir) THEN acc
       ELSE LET nPos == CellPos(r, n)
                cPos == CellPos(r, c)
                mPos == Vec2((nPos.x + cPos.x) \div 2, (nPos.y + cPos.y) \div 2)
            IN IF Blocked(nPos, mPos, pStartOf(r), pEndOf(r), r.obstacles) THEN acc
               ELSE LET tentativeG == acc.gScore[c]
                                      + StepCost(cPos, nPos, cur.dir, nDir, r.obstacles, r.buffer)
                        goal == CellPos(r, endCell(r))
                    IN IF n \in DOMAIN acc.gScore /\ tentativeG >= acc.gScore[n] THEN acc
                       ELSE [openSet |-> Append(acc.openSet,
                                 [x |-> n[1], y |-> n[2],
                                  f |-> tentativeG + Manhattan(nPos, goal), dir |-> nDir]),
                             gScore |-> MapWith(acc.gScore, n, tentativeG),
                             cameFrom |-> MapWith(acc.cameFrom, n, c)]

RECURSIVE Backtrack(_, _, _)
\* the cells from curr back along cameFrom, the goal first
Backtrack(r, curr, fuel) ==
    IF curr \in DOMAIN r.cameFrom /\ fuel > 0
    THEN <<CellPos(r, curr)>> \o Backtrack(r, r.cameFrom[curr], fuel - 1)
    ELSE <<CellPos(r, curr)>>

Reverse(seq) == [i \in 1..Len(seq) |-> seq[Len(seq) + 1 - i]]

RECURSIVE SimplifyFrom(_, _, _)
\* the loop of the simplification from index i, simplified being kept so far
SimplifyFrom(path, simplified, i) ==
    IF i > Len(path) - 1 THEN Append(simplified, path[Len(path)])
    ELSE LET pPrev == simplified[Len(simplified)]
             pCurr == path[i]
             pNext == path[i + 1]
             isColinear == \/ pPrev.x = pCurr.x /\ pCurr.x = pNext.x
                           \/ pPrev.y = pCurr.y /\ pCurr.y = pNext.y
         IN SimplifyFrom(path, IF isColinear THEN simplified ELSE Append(simplified, pCurr), i + 1)

Simplified(path) == IF Len(path) > 2 THEN SimplifyFrom(path, <<path[1]>>, 2) ELSE path

\* faulty variant: the fallback joins the outset anchors
FallbackOutset(start, end) == <<Vec2(start.x + Outset, start.y), Vec2(end.x - Outset, end.y)>>

\* [pStartReal, pEndReal]
Fallback(start, end) == <<start, end>>

\* faulty variant: the routed cells alone, without the two anchors
FoundPathCellsOnly(r) ==
    Simplified(Reverse(Backtrack(r, endCell(r), Len(r.xs) * Len(r.ys))))

FoundPath(r) ==
    Simplified(<<r.start>>
               \o Reverse(Backtrack(r, endCell(r), Len(r.xs) * Len(r.ys)))
               \o <<r.end>>)

(***************************************************************************)
(* utils/routing.ts: findPortPosition, and the edge block of the template  *)
(* of Canvas.svelte.  A result that may be null is a sequence of length 0  *)
(* or 1.  Lengths are in half world units.                                 *)
(***************************************************************************)
PortOutset == 2
PortPadding == 40

\* Array.prototype.indexOf, counted from 1; 0 when x is absent
IndexOf(seq, x) ==
    IF x \in Range(seq) THEN SmallestOf({i \in 1..Len(seq) : seq[i] = x}) ELSE 0

\* faulty variant: the anchor lies on the edge of the node itself
PortAnchorOnEdge(node, idx, count, isOutput) ==
    Vec2(IF isOutput THEN node.position[1] + node.size[1] ELSE node.position[1],
         node.position[2] + PortPadding
            + ((2 * idx - 1) * (node.size[2] - 2 * PortPadding)) \div (2 * count))

\* the anchor of the port at index idx (from 1) of count ports of node
PortAnchor(node, idx, count, isOutput) ==
    Vec2(IF isOutput THEN node.position[1] + node.size[1] + PortOutset
                     ELSE node.position[1] - PortOutset,
         node.position[2] + PortPadding
            + ((2 * idx - 1) * (node.size[2] - 2 * PortPadding)) \div (2 * count))

\* faulty variant: a port that is not found gets the origin as its anchor
findPortPositionOrigin(g, nodes, portId) == <<Vec2(0, 0)>>

RECURSIVE findPortPosition(_, _, _)
\* nodes is the list of node ids handed to the renderer, resolved in store g
findPortPosition(g, nodes, portId) ==
    IF nodes = <<>> THEN <<>>
    ELSE LET node == g.nodes[Head(nodes)]
             inIdx == IndexOf(node.inputs, portId)
             outIdx == IndexOf(node.outputs, portId)
         IN IF inIdx # 0 THEN <<PortAnchor(node, inIdx, Len(node.inputs), FALSE)>>
            ELSE IF outIdx # 0 THEN <<PortAnchor(node, outIdx, Len(node.outputs), TRUE)>>
            ELSE findPortPosition(g, Tail(nodes), portId)

NothingDrawn == [rendered |-> FALSE, edges |-> EmptyMap, temp |-> <<>>]

\* no undo under way
NoUndoMark == [stage |-> "none", graph |-> EmptyGraph]

\* no drag under way
NoDrag == [id |-> NoNode, position |-> <<0, 0>>, sum |-> <<0, 0>>]

\* {#each getSortedEdges(graph) as edge} ... {#if start && end} <Edge .../>
EdgesDrawn(g) ==
    LET nodes == getNodes(g)
        shown == {e \in DOMAIN g.edges :
                    /\ findPortPosition(g, nodes, g.edges[e].from) # <<>>
                    /\ findPortPosition(g, nodes, g.edges[e].to) # <<>>}
    IN [e \in shown |->
          [start |-> findPortPosition(g, nodes, g.edges[e].from)[1],
           end |-> findPortPosition(g, nodes, g.edges[e].to)[1],
           style |-> g.edges[e].style]]

\* {#if connectingFrom && tempEdgeEnd} ... {#if start} <Edge .../>
TempEdgeDrawn(g, cf, te) ==
    IF cf # <<>> /\ te # <<>>
    THEN LET start == findPortPosition(g, getNodes(g), cf[1].portId)
         IN IF start # <<>>
            THEN <<[start |-> start[1], end |-> te[1], style |-> "Cubic"]>>
            ELSE <<>>
    ELSE <<>>

(***************************************************************************)
(* The editor: state after construction (onMount has called init, whose    *)
(* init_sdk call is in flight), and the steps                              *)
(***************************************************************************)
InitCall == [BlankCall EXCEPT !.id = 1, !.op = "init_sdk", !.after = "init"]

InitEditor ==
    /\ graph = EmptyGraph
    /\ status = Status("Initializing SDK...", 0)
    /\ pan = Vec2(0, 0)
    /\ zoom = 10
    /\ isDraggingCanvas = FALSE
    /\ draggingNodeId = NoNode
    /\ selectedNodeIds = {}
    /\ globalEdgeStyle = "Cubic"
    /\ lastMousePos = Vec2(0, 0)
    /\ internalClipboard = <<>>
    /\ isBoxSelecting = FALSE
    /\ boxStart = Vec2(0, 0)
    /\ boxEnd = Vec2(0, 0)
    /\ connectingFrom = <<>>
    /\ tempEdgeEnd = <<>>
    /\ wasPanned = FALSE
    /\ pending = {InitCall}
    /\ events = 0
    /\ server = InitialServer
    /\ last = NoStep

Init == InitEditor /\ router = NoRouterCall /\ drawn = NothingDrawn /\ beforeUndo = NoUndoMark /\ dragStart = NoDrag

\* the inputs the events are drawn from
Buttons == {0, 1, 2}
ClientPts == {<<0, 0>>}
Moves == {<<1, 1>>, <<-1, -1>>}
Keys == {"z", "c", "v", "Delete", "Backspace", "a"}
ZoomLevels == {10, 20}
Factors == {<<2, 1>>, <<1, 2>>}

InRange(v) == 0 <= v /\ v <= MaxCoord

\* the positions stay within the bounds of the model
Bounded ==
    /\ InRange(pan'.x) /\ InRange(pan'.y)
    /\ zoom' \in ZoomLevels
    /\ \A n \in DOMAIN graph'.nodes :
          InRange(graph'.nodes[n].position[1]) /\ InRange(graph'.nodes[n].position[2])

\* an input event is handled, within the budget of events
Event == events < MaxEvents /\ events' = events + 1 /\ UNCHANGED <<router, drawn, beforeUndo, dragStart>>

Next ==
    \/ \E f \in Factors, p \in ClientPts :
          Event /\ OnWheel(TRUE, f[1], f[2], 0, 0, p[1], p[2]) /\ Bounded
    \/ \E m \in Moves : Event /\ OnWheel(FALSE, 1, 1, m[1], m[2], 0, 0) /\ Bounded
    \/ \E b \in Buttons, sh \in BOOLEAN, p \in ClientPts :
          Event /\ OnMouseDown(b, sh, p[1], p[2])
    \/ \E sh \in BOOLEAN, n \in NodeIds : Event /\ OnNodeMouseDown(sh, n)
    \/ \E t \in ShownPorts(graph), p \in ClientPts :
          Event /\ OnPortMouseDown(t[1], t[2], t[3], p[1], p[2])
    \/ \E t \in ShownPorts(graph) : Event /\ OnPortMouseUp(t[1], t[2], t[3])
    \/ \E p \in ClientPts, m \in Moves :
          Event /\ OnMouseMove(p[1], p[2], m[1], m[2]) /\ Bounded
    \/ Event /\ OnMouseUp
    \/ \E k \in Keys, md \in BOOLEAN, sh \in BOOLEAN : Event /\ OnKeyDown(k, md, sh)
    \/ Event /\ OnToolbarUndo
    \/ Event /\ OnToolbarRedo
    \/ \E st \in WireStyles : Event /\ setGlobalStyle(st)
    \/ \E e \in EdgeIds : Event /\ cycleEdgeStyle(e)
    \/ \E p \in ClientPts : Event /\ OnDrop(p[1], p[2])
    \/ \E c \in pending : ServerAck(c) /\ UNCHANGED <<router, drawn, beforeUndo, dragStart>>
    \/ \E c \in pending : ServerReject(c) /\ UNCHANGED <<router, drawn, beforeUndo, dragStart>>
    \/ \E c \in pending : Settle(c) /\ UNCHANGED <<router, drawn, beforeUndo, dragStart>>

Spec == Init /\ [][Next]_vars

(***************************************************************************)
(* The router on its own: one call of getSmartOrthogonalPath, from its     *)
(* arguments to the path it returns                                        *)
(***************************************************************************)
MaxObstacles == 2

\* node boxes the obstacle lists are drawn from, and the port anchors
ObstacleCatalog ==
    <<Obstacle(0, 0, 200, 120), Obstacle(60, 40, 160, 80), Obstacle(300, 0, 500, 120),
      Obstacle(210, 40, 410, 160)>>
StartAnchors ==
    {Vec2(202, 61), Vec2(202, 60), Vec2(60, 60), Vec2(-100, 200), Vec2(-100, 60)}
EndAnchors == {Vec2(298, 61), Vec2(140, 60), Vec2(600, -50), Vec2(150, 300)}

ObstacleLists ==
    {SeqFilterIn(ObstacleCatalog, {ObstacleCatalog[k] : k \in K}) :
        K \in {K \in SUBSET (1..Len(ObstacleCatalog)) : Cardinality(K) <= MaxObstacles}}

InitRouter ==
    /\ InitEditor
    /\ \E s \in StartAnchors, e \in EndAnchors, obs \in ObstacleLists :
          router = RouterCall(s, e, obs, DefaultBuffer)
    /\ drawn = NothingDrawn /\ beforeUndo = NoUndoMark /\ dragStart = NoDrag

\* lines 56-124: the early return, or the grid and the first open entry
RouterEnter ==
    /\ router.pc = "call"
    /\ LET pStart == pStartOf(router)
           pEnd == pEndOf(router)
       IN IF Abs(pStart.x - pEnd.x) < NearTolerance /\ Abs(pStart.y - pEnd.y) < NearTolerance
          THEN router' = [router EXCEPT !.pc = "done",
                                        !.path = <<router.start, router.end>>]
          ELSE LET r == [router EXCEPT
                            !.xs = Grid("x", pStart, pEnd, router.obstacles, router.buffer),
                            !.ys = Grid("y", pStart, pEnd, router.obstacles, router.buffer)]
                   s == startCell(r)
               IN router' = [r EXCEPT !.pc = "search",
                                      !.openSet = <<[x |-> s[1], y |-> s[2], f |-> 0, dir |-> 1]>>,
                                      !.gScore = MapWith(EmptyMap, s, 0)]
    /\ UNCHANGED <<editorVars, drawn, beforeUndo, dragStart>>

\* lines 127-206: one turn of the while loop
RouterExpand ==
    /\ router.pc = "search"
    /\ router.openSet # <<>>
    /\ LET k == Shifted(router.openSet)
           cur == router.openSet[k]
           acc0 == [openSet |-> WithoutIndex(router.openSet, k),
                    gScore |-> router.gScore, cameFrom |-> router.cameFrom]
           acc == Relax(router, Relax(router, Relax(router, Relax(router, acc0, cur, 1),
                                                    cur, 2), cur, 3), cur, 4)
       IN IF <<cur.x, cur.y>> = endCell(router)
          THEN router' = [router EXCEPT !.pc = "return", !.found = TRUE,
                                        !.openSet = acc0.openSet]
          ELSE router' = [router EXCEPT !.openSet = acc.openSet, !.gScore = acc.gScore,
                                        !.cameFrom = acc.cameFrom]
    /\ UNCHANGED <<editorVars, drawn, beforeUndo, dragStart>>

\* faulty variant: an empty open set starts the search again
RouterExhaustRestarts ==
    /\ router.pc = "search"
    /\ router.openSet = <<>>
    /\ LET s == startCell(router)
       IN router' = [router EXCEPT
                        !.openSet = <<[x |-> s[1], y |-> s[2], f |-> 0, dir |-> 1]>>,
                        !.gScore = MapWith(EmptyMap, s, 0),
                        !.cameFrom = EmptyMap]
    /\ UNCHANGED <<editorVars, drawn, beforeUndo, dragStart>>

\* line 127: the open set is empty, the loop ends without a route
RouterExhaust ==
    /\ router.pc = "search"
    /\ router.openSet = <<>>
    /\ router' = [router EXCEPT !.pc = "return"]
    /\ UNCHANGED <<editorVars, drawn, beforeUndo, dragStart>>

\* lines 208-236: the path returned
RouterReturn ==
    /\ router.pc = "return"
    /\ router' = [router EXCEPT !.pc = "done",
                     !.path = IF router.found THEN FoundPath(router)
                              ELSE Fallback(router.start, router.end)]
    /\ UNCHANGED <<editorVars, drawn, beforeUndo, dragStart>>

NextRouter ==
    \/ RouterEnter
    \/ RouterExpand
    \/ RouterExhaust
    \/ RouterReturn

SpecRouter == InitRouter /\ [][NextRouter]_vars

\* weak fairness of the steps of the call, WF_vars(NextRouter), with ENABLED
\* written out: a step is enabled exactly when the call has not returned
\* (RouterEnter at "call", RouterExpand or RouterExhaust at "search",
\* RouterReturn at "return"), and every step changes router
RouterFair ==
    \/ []<>(router.pc = "done")
    \/ []<><<NextRouter>>_vars

\* the call runs on: the function is straight-line code and a loop, and
\* nothing else has to happen for its next step to be taken
SpecRouterLive == InitRouter /\ [][NextRouter]_vars /\ RouterFair

(***************************************************************************)
(* The canvas with a graph of three nodes loaded and no call in flight:    *)
(* pointer gestures on the empty canvas, with pointer positions around and *)
(* across the nodes                                                        *)
(***************************************************************************)
\* node positions in half world units, and pointer positions in pixels
SelectPositions == <<<<0, 0>>, <<6, 0>>, <<12, 6>>>>
SelectPts == {<<x, y>> : x \in {-1, 1, 4, 7}, y \in {-1, 1, 4}}
SelectPans == {Vec2(0, 0), Vec2(1, 1)}

SelectGraph ==
    [nodes |-> [n \in 1..Len(SelectPositions) |-> SerializableNode(n, SelectPositions[n])],
     edges |-> EmptyMap,
     draw_order |-> <<1, 2, 3>>]

\* the graph has been fetched; view and selection are what wheel events and
\* shift-clicks have left
InitSelect ==
    /\ graph = SelectGraph
    /\ status = Status("Ready. Nodes: ", Len(SelectPositions))
    /\ pan \in SelectPans
    /\ zoom \in ZoomLevels
    /\ isDraggingCanvas = FALSE
    /\ draggingNodeId = NoNode
    /\ selectedNodeIds \in SUBSET (DOMAIN SelectGraph.nodes)
    /\ globalEdgeStyle = "Cubic"
    /\ lastMousePos = Vec2(0, 0)
    /\ internalClipboard = <<>>
    /\ isBoxSelecting = FALSE
    /\ boxStart = Vec2(0, 0)
    /\ boxEnd = Vec2(0, 0)
    /\ connectingFrom = <<>>
    /\ tempEdgeEnd = <<>>
    /\ wasPanned = FALSE
    /\ pending = {}
    /\ events = 0
    /\ server = Committed(InitialServer, SelectGraph)
    /\ last = NoStep
    /\ router = NoRouterCall
    /\ drawn = NothingDrawn /\ beforeUndo = NoUndoMark /\ dragStart = NoDrag

PanBounded == InRange(pan'.x) /\ InRange(pan'.y)

NextSelect ==
    \/ \E b \in Buttons, sh \in BOOLEAN, p \in SelectPts :
          Event /\ OnMouseDown(b, sh, p[1], p[2])
    \/ \E p \in SelectPts, m \in Moves :
          Event /\ OnMouseMove(p[1], p[2], m[1], m[2]) /\ PanBounded
    \/ Event /\ OnMouseUp

SpecSelect == InitSelect /\ [][NextSelect]_vars

(***************************************************************************)
(* The template on its own: the stores a snapshot can leave, a connection  *)
(* possibly in progress, and the edges drawn for them                      *)
(***************************************************************************)
MaxRenderNodes == 2

RenderNodeIds == 1..MaxRenderNodes

\* the sequences without repetition over the subsets of S
RECURSIVE Arrangements(_)
Arrangements(S) ==
    {<<>>} \cup UNION {{<<x>> \o t : t \in Arrangements(S \ {x})} : x \in S}

\* one edge, from the output of node 1 to the input of the last node
RenderEdges ==
    {EmptyMap,
     [e \in {1} |-> SerializableEdge(1, TemplateOutputs(1)[1],
                                     TemplateInputs(MaxRenderNodes)[1], "Linear")]}

\* the stores: any of the nodes may be gone, with the edge and the draw
\* order naming it still
RenderStores ==
    {[nodes |-> [n \in N |-> SerializableNode(n, <<(n - 1) * 2, (n - 1) * 2>>)],
      edges |-> es, draw_order |-> d] :
        N \in SUBSET RenderNodeIds, es \in RenderEdges, d \in Arrangements(RenderNodeIds)}

RenderPorts ==
    UNION {{[nodeId |-> n, portId |-> TemplateInputs(n)[1], isOutput |-> FALSE],
            [nodeId |-> n, portId |-> TemplateOutputs(n)[1], isOutput |-> TRUE]} :
              n \in RenderNodeIds}

InitRender ==
    /\ graph \in RenderStores
    /\ status = Status("Ready. Nodes: ", Cardinality(DOMAIN graph.nodes))
    /\ pan = Vec2(0, 0)
    /\ zoom = 10
    /\ isDraggingCanvas = FALSE
    /\ draggingNodeId = NoNode
    /\ selectedNodeIds = {}
    /\ globalEdgeStyle = "Cubic"
    /\ lastMousePos = Vec2(0, 0)
    /\ internalClipboard = <<>>
    /\ isBoxSelecting = FALSE
    /\ boxStart = Vec2(0, 0)
    /\ boxEnd = Vec2(0, 0)
    /\ connectingFrom \in {<<>>} \cup {<<p>> : p \in RenderPorts}
    /\ tempEdgeEnd \in {<<>>, <<Vec2(2, 2)>>}
    /\ wasPanned = FALSE
    /\ pending = {}
    /\ events = 0
    /\ server = InitialServer
    /\ last = NoStep
    /\ router = NoRouterCall
    /\ drawn = NothingDrawn /\ beforeUndo = NoUndoMark /\ dragStart = NoDrag

\* the edge block of the template is evaluated
Render ==
    /\ ~drawn.rendered
    /\ drawn' = [rendered |-> TRUE,
                 edges |-> EdgesDrawn(graph),
                 temp |-> TempEdgeDrawn(graph, connectingFrom, tempEdgeEnd)]
    /\ UNCHANGED <<editorVars, router, beforeUndo, dragStart>>

NextRender == Render

SpecRender == InitRender /\ [][NextRender]_vars

(***************************************************************************)
(* The simplification step on its own: a point sequence, and the sequence  *)
(* lines 219-232 make of it                                                *)
(***************************************************************************)

MaxPathLen == 5

PathPoints == {Vec2(x, y) : x \in 0..1, y \in 0..1}

PointSequences == UNION {[1..n -> PathPoints] : n \in 0..MaxPathLen}

InitSimplify ==
    /\ InitEditor
    /\ \E P \in PointSequences :
          router = [NoRouterCall EXCEPT !.pc = "simplify", !.path = P]
    /\ drawn = NothingDrawn /\ beforeUndo = NoUndoMark /\ dragStart = NoDrag

\* lines 219-232: path = simplified
Simplify ==
    /\ router.pc = "simplify"
    /\ router' = [router EXCEPT !.pc = "simplified", !.path = Simplified(router.path)]
    /\ UNCHANGED <<editorVars, drawn, beforeUndo, dragStart>>

NextSimplify == Simplify

SpecSimplify == InitSimplify /\ [][NextSimplify]_vars

(***************************************************************************)
(* The editor with the graph loaded: a node is dragged and released, then  *)
(* undo and redo are asked for.  beforeUndo keeps the store an undo found  *)
(* when it was issued on a committed store, as long as nothing but the     *)
(* undo, its refresh, the redo and its refresh happens                     *)
(***************************************************************************)

MaxUndoEvents == 5

InitUndo ==
    /\ graph = InitialServerGraph
    /\ status = Status("Ready. Nodes: ", Cardinality(DOMAIN InitialServerGraph.nodes))
    /\ pan = Vec2(0, 0)
    /\ zoom \in ZoomLevels
    /\ isDraggingCanvas = FALSE
    /\ draggingNodeId = NoNode
    /\ selectedNodeIds = {}
    /\ globalEdgeStyle = "Cubic"
    /\ lastMousePos = Vec2(0, 0)
    /\ internalClipboard = <<>>
    /\ isBoxSelecting = FALSE
    /\ boxStart = Vec2(0, 0)
    /\ boxEnd = Vec2(0, 0)
    /\ connectingFrom = <<>>
    /\ tempEdgeEnd = <<>>
    /\ wasPanned = FALSE
    /\ pending = {}
    /\ events = 0
    /\ server = InitialServer
    /\ last = NoStep
    /\ router = NoRouterCall
    /\ drawn = NothingDrawn
    /\ beforeUndo = NoUndoMark /\ dragStart = NoDrag

\* an input event within the budget of this scenario
UndoEvent == events < MaxUndoEvents /\ events' = events + 1 /\ UNCHANGED <<router, drawn, dragStart>>

\* the positions of the store are the committed ones: no call is in flight,
\* no drag is going on, the collaborator holds the same positions and has a
\* commit to undo
CommittedStore ==
    /\ pending = {}
    /\ draggingNodeId = NoNode
    /\ server.undo # <<>>
    /\ DOMAIN graph.nodes = DOMAIN server.graph.nodes
    /\ \A n \in DOMAIN graph.nodes : graph.nodes[n].position = server.graph.nodes[n].position

UndoIssued ==
    beforeUndo' = IF CommittedStore THEN [stage |-> "undo", graph |-> graph] ELSE NoUndoMark

RedoIssued ==
    beforeUndo' = IF beforeUndo.stage = "undo" /\ pending = {}
                  THEN [beforeUndo EXCEPT !.stage = "redo"] ELSE NoUndoMark

NextUndo ==
    \/ \E n \in DOMAIN InitialServerGraph.nodes :
          UndoEvent /\ OnNodeMouseDown(FALSE, n) /\ beforeUndo' = NoUndoMark
    \/ \E m \in Moves :
          UndoEvent /\ OnMouseMove(0, 0, m[1], m[2]) /\ Bounded /\ beforeUndo' = NoUndoMark
    \/ UndoEvent /\ OnMouseUp /\ beforeUndo' = NoUndoMark
    \/ UndoEvent /\ OnToolbarUndo /\ UndoIssued
    \/ UndoEvent /\ OnToolbarRedo /\ RedoIssued
    \/ \E c \in pending : ServerAck(c) /\ UNCHANGED <<router, drawn, beforeUndo, dragStart>>
    \/ \E c \in pending :
          ServerReject(c) /\ beforeUndo' = NoUndoMark /\ UNCHANGED <<router, drawn, dragStart>>
    \/ \E c \in pending : Settle(c) /\ UNCHANGED <<router, drawn, beforeUndo, dragStart>>

SpecUndo == InitUndo /\ [][NextUndo]_vars

(***************************************************************************)
(* The editor with the graph loaded: wheel events at several zoom factors  *)
(* and cursor positions, pointer events and a key, so that the zoom        *)
(* reaches both ends of its range and changes while a node is dragged.     *)
(* dragStart keeps the dragged node's position at pointer-down and the sum *)
(* of movement / zoom over the pointer-moves since                         *)
(***************************************************************************)

MaxViewEvents == 4

ViewFactors == {<<2, 1>>, <<1, 2>>, <<100, 1>>, <<1, 100>>}
ViewPts == {<<0, 0>>, <<30000, -12000>>}
ViewDeltas == {<<120, -40>>}
ViewMoves == {<<3, -2>>, <<-50, 70>>}

InitView ==
    /\ graph = InitialServerGraph
    /\ status = Status("Ready. Nodes: ", Cardinality(DOMAIN InitialServerGraph.nodes))
    /\ pan = Vec2(0, 0)
    /\ zoom = 10
    /\ isDraggingCanvas = FALSE
    /\ draggingNodeId = NoNode
    /\ selectedNodeIds \in {{}, {1}}
    /\ globalEdgeStyle = "Cubic"
    /\ lastMousePos = Vec2(0, 0)
    /\ internalClipboard = <<>>
    /\ isBoxSelecting = FALSE
    /\ boxStart = Vec2(0, 0)
    /\ boxEnd = Vec2(0, 0)
    /\ connectingFrom = <<>>
    /\ tempEdgeEnd = <<>>
    /\ wasPanned = FALSE
    /\ pending = {}
    /\ events = 0
    /\ server = InitialServer
    /\ last = NoStep
    /\ router = NoRouterCall
    /\ drawn = NothingDrawn
    /\ beforeUndo = NoUndoMark
    /\ dragStart = NoDrag

\* an input event within the budget of this scenario
ViewEvent ==
    events < MaxViewEvents /\ events' = events + 1 /\ UNCHANGED <<router, drawn, beforeUndo>>

DragStarted(n) ==
    dragStart' = [id |-> n, position |-> graph.nodes[n].position, sum |-> <<0, 0>>]

\* movement / zoom of this event, added to the sum while a drag is on
DragMoved(movementX, movementY) ==
    dragStart' = IF draggingNodeId # NoNode
                 THEN [dragStart EXCEPT !.sum = <<@[1] + DivZoom(movementX, zoom),
                                                  @[2] + DivZoom(movementY, zoom)>>]
                 ELSE dragStart

NextView ==
    \/ \E f \in ViewFactors, p \in ViewPts :
          ViewEvent /\ OnWheel(TRUE, f[1], f[2], 0, 0, p[1], p[2]) /\ UNCHANGED dragStart
    \/ \E d \in ViewDeltas :
          ViewEvent /\ OnWheel(FALSE, 1, 1, d[1], d[2], 0, 0) /\ UNCHANGED dragStart
    \/ \E b \in Buttons :
          ViewEvent /\ OnMouseDown(b, FALSE, 0, 0) /\ UNCHANGED dragStart
    \/ \E n \in DOMAIN InitialServerGraph.nodes :
          ViewEvent /\ OnNodeMouseDown(FALSE, n) /\ DragStarted(n)
    \/ \E m \in ViewMoves :
          ViewEvent /\ OnMouseMove(0, 0, m[1], m[2]) /\ DragMoved(m[1], m[2])
    \/ ViewEvent /\ OnMouseUp /\ UNCHANGED dragStart
    \/ ViewEvent /\ OnKeyDown("a", FALSE, FALSE) /\ UNCHANGED dragStart
    \/ \E c \in pending : ServerAck(c) /\ UNCHANGED <<router, drawn, beforeUndo, dragStart>>
    \/ \E c \in pending : ServerReject(c) /\ UNCHANGED <<router, drawn, beforeUndo, dragStart>>
    \/ \E c \in pending : Settle(c) /\ UNCHANGED <<router, drawn, beforeUndo, dragStart>>

SpecView == InitView /\ [][NextView]_vars

(***************************************************************************)
(* findPortPosition on its own: one node of some position, height and      *)
(* numbers of ports, a connection started from one of its ports, and the   *)
(* temporary edge the template draws from that port's anchor.  Heights are *)
(* such that the division by the number of ports is exact where the        *)
(* available height is positive                                            *)
(***************************************************************************)

MaxPorts == 3

LocatePositions == {<<0, 0>>, <<-31, 17>>}
LocateSizes == {<<200, 0>>, <<200, 60>>, <<200, 80>>, <<200, 104>>, <<160, 200>>}

LocateNode(pos, size, n, m) ==
    [id |-> 1, position |-> pos, size |-> size,
     inputs |-> [i \in 1..n |-> i], outputs |-> [j \in 1..m |-> n + j]]

InitLocate ==
    /\ \E pos \in LocatePositions, size \in LocateSizes, n \in 1..MaxPorts, m \in 1..MaxPorts :
          /\ graph = [nodes |-> MapWith(EmptyMap, 1, LocateNode(pos, size, n, m)),
                      edges |-> EmptyMap, draw_order |-> <<1>>]
          /\ \E p \in 1..(n + m) :
                connectingFrom = <<[nodeId |-> 1, portId |-> p, isOutput |-> p > n]>>
    /\ status = Status("Ready. Nodes: ", 1)
    /\ pan = Vec2(0, 0)
    /\ zoom = 10
    /\ isDraggingCanvas = FALSE
    /\ draggingNodeId = NoNode
    /\ selectedNodeIds = {}
    /\ globalEdgeStyle = "Cubic"
    /\ lastMousePos = Vec2(0, 0)
    /\ internalClipboard = <<>>
    /\ isBoxSelecting = FALSE
    /\ boxStart = Vec2(0, 0)
    /\ boxEnd = Vec2(0, 0)
    /\ tempEdgeEnd = <<Vec2(0, 0)>>
    /\ wasPanned = FALSE
    /\ pending = {}
    /\ events = 0
    /\ server = InitialServer
    /\ last = NoStep
    /\ router = NoRouterCall
    /\ drawn = NothingDrawn
    /\ beforeUndo = NoUndoMark
    /\ dragStart = NoDrag

SpecLocate == InitLocate /\ [][NextRender]_vars

(***************************************************************************)
(* The points of an edge drawn in the Cubic or the Linear style            *)
(* (Edge.svelte, pathPoints), for start and end anchors a whole number of  *)
(* world units apart, the end to the right of, above, and to the left of   *)
(* the start.  The Orthogonal branch is the router above                   *)
(***************************************************************************)

\* routing.ts lines 37-44
calculateBezierPoints(start, end) ==
    LET dx == Abs(end.x - start.x)
        midX == start.x + dx \div 2
    IN  <<Vec2(midX, start.y), Vec2(midX, end.y)>>

\* routing.ts lines 46-48
calculateLinearPoints(start, end) == <<start, end>>

\* Edge.svelte lines 28-38, the branches that need no obstacles
pathPoints(style, start, end) ==
    CASE style = "Cubic" ->
            LET cp == calculateBezierPoints(start, end)
            IN  <<start, cp[1], cp[2], end>>
      [] style = "Linear" -> calculateLinearPoints(start, end)
      [] OTHER -> <<start, end>>

CurveAnchors == {Vec2(x, y) : x \in {-40, 0, 60, 200}, y \in {-10, 0, 30}}
CurveStyles == {"Cubic", "Linear"}

InitCurve ==
    /\ InitEditor
    /\ \E s \in CurveAnchors, e \in CurveAnchors :
          router = [NoRouterCall EXCEPT !.pc = "edge", !.start = s, !.end = e]
    /\ drawn = NothingDrawn /\ beforeUndo = NoUndoMark /\ dragStart = NoDrag

\* the edge component derives its points for the style it was given
EdgePath(style) ==
    /\ router.pc = "edge"
    /\ router' = [router EXCEPT !.pc = style,
                                !.path = pathPoints(style, router.start, router.end)]
    /\ UNCHANGED <<editorVars, drawn, beforeUndo, dragStart>>

NextCurve == \E style \in CurveStyles : EdgePath(style)

SpecCurve == InitCurve /\ [][NextCurve]_vars

(***************************************************************************)
(* The editor with the graph loaded, a selection made, possibly something  *)
(* copied, and the pointer last seen somewhere: keys are pressed and the   *)
(* calls they issue are answered                                           *)
(***************************************************************************)

MaxKeyEvents == 2

KeySelections == {{}, {1}, {1, 2}}
KeyClipboards == {<<>>, <<1>>}
KeyPointers == {Vec2(0, 0), Vec2(6, -4)}

InitKeys ==
    /\ graph = InitialServerGraph
    /\ status = Status("Ready. Nodes: ", Cardinality(DOMAIN InitialServerGraph.nodes))
    /\ pan = Vec2(0, 0)
    /\ zoom = 10
    /\ isDraggingCanvas = FALSE
    /\ draggingNodeId = NoNode
    /\ selectedNodeIds \in KeySelections
    /\ globalEdgeStyle = "Cubic"
    /\ lastMousePos \in KeyPointers
    /\ internalClipboard \in KeyClipboards
    /\ isBoxSelecting = FALSE
    /\ boxStart = Vec2(0, 0)
    /\ boxEnd = Vec2(0, 0)
    /\ connectingFrom = <<>>
    /\ tempEdgeEnd = <<>>
    /\ wasPanned = FALSE
    /\ pending = {}
    /\ events = 0
    /\ server = InitialServer
    /\ last = NoStep
    /\ router = NoRouterCall
    /\ drawn = NothingDrawn
    /\ beforeUndo = NoUndoMark
    /\ dragStart = NoDrag

KeyEvent ==
    /\ events < MaxKeyEvents
    /\ events' = events + 1
    /\ UNCHANGED <<router, drawn, beforeUndo, dragStart>>

NextKeys ==
    \/ \E k \in Keys, md \in BOOLEAN, sh \in BOOLEAN : KeyEvent /\ OnKeyDown(k, md, sh)
    \/ \E c \in pending : ServerAck(c) /\ UNCHANGED <<router, drawn, beforeUndo, dragStart>>
    \/ \E c \in pending : ServerReject(c) /\ UNCHANGED <<router, drawn, beforeUndo, dragStart>>
    \/ \E c \in pending : Settle(c) /\ UNCHANGED <<router, drawn, beforeUndo, dragStart>>

SpecKeys == InitKeys /\ [][NextKeys]_vars

(***************************************************************************)
(* The editor with the graph loaded: a node is pressed, which selects it,  *)
(* and deleted with the keyboard while the button is still down; the       *)
(* pointer goes on moving and is released                                  *)
(***************************************************************************)

InitGone == InitView /\ selectedNodeIds = {}

NextGone ==
    \/ \E n \in DOMAIN InitialServerGraph.nodes :
          ViewEvent /\ OnNodeMouseDown(FALSE, n) /\ DragStarted(n)
    \/ ViewEvent /\ OnKeyDown("Delete", FALSE, FALSE) /\ UNCHANGED dragStart
    \/ \E m \in ViewMoves :
          ViewEvent /\ OnMouseMove(0, 0, m[1], m[2]) /\ DragMoved(m[1], m[2])
    \/ ViewEvent /\ OnMouseUp /\ UNCHANGED dragStart
    \/ \E c \in pending : ServerAck(c) /\ UNCHANGED <<router, drawn, beforeUndo, dragStart>>
    \/ \E c \in pending : ServerReject(c) /\ UNCHANGED <<router, drawn, beforeUndo, dragStart>>
    \/ \E c \in pending : Settle(c) /\ UNCHANGED <<router, drawn, beforeUndo, dragStart>>

SpecGone == InitGone /\ [][NextGone]_vars

(***************************************************************************)
(* The same key presses with a collaborator that answers every call it can *)
(* carry out: the responses of the calls in flight arrive in any order     *)
(***************************************************************************)

NextRefresh ==
    \/ \E k \in Keys, md \in BOOLEAN, sh \in BOOLEAN : KeyEvent /\ OnKeyDown(k, md, sh)
    \/ \E c \in pending : ServerAck(c) /\ UNCHANGED <<router, drawn, beforeUndo, dragStart>>
    \/ \E c \in pending : Settle(c) /\ UNCHANGED <<router, drawn, beforeUndo, dragStart>>

SpecRefresh == InitKeys /\ [][NextRefresh]_vars

(***************************************************************************)
(* The claims                                                              *)
(***************************************************************************)
\* the gestures in progress
ActiveGestures ==
    {g \in {"Panning", "DraggingNode", "BoxSelecting", "ConnectingPort"} :
        \/ g = "Panning" /\ isDraggingCanvas
        \/ g = "DraggingNode" /\ draggingNodeId # NoNode
        \/ g = "BoxSelecting" /\ isBoxSelecting
        \/ g = "ConnectingPort" /\ connectingFrom # <<>>}

\* C1: in every reachable state at most one of the four gestures (panning,
\* node-dragging, box-selecting, port-connecting) is active; a pointer-down
\* that arrives while a gesture is in progress starts no other gesture.
C1_AtMostOneGesture == Cardinality(ActiveGestures) <= 1

\* C2: on pointer-up on a port while connecting, an addEdge intent is issued
\* only if the released port differs from the source port and the directions
\* are opposite; otherwise no intent is sent and connectingFrom / tempEdgeEnd
\* are cleared.
C2_InvalidReleaseSilent ==
    [][\A t \in ShownPorts(graph) :
          (connectingFrom # <<>> /\ OnPortMouseUp(t[1], t[2], t[3])) =>
             LET cf == connectingFrom[1]
                 valid == t[2] # cf.portId /\ t[3] # cf.isOutput
             IN IF valid
                THEN \A c \in pending' \ pending : c.op = "add_edge"
                ELSE /\ pending' = pending
                     /\ connectingFrom' = <<>>
                     /\ tempEdgeEnd' = <<>>]_vars

\* a port was released on an invalid target: nothing was issued
C2_Witness ==
    /\ last.handler = "onPortMouseUp"
    /\ last.issued.op = ""
    /\ connectingFrom = <<>>
    /\ tempEdgeEnd = <<>>

InputPorts == UNION {Range(TemplateInputs(n)) : n \in NodeIds}
OutputPorts == UNION {Range(TemplateOutputs(n)) : n \in NodeIds}

\* C3: every addEdge intent has from = an output port and to = an input port;
\* a drag from output A to input B and the reversed drag from B to A issue
\* the same intent addEdge(from: A, to: B).
C3_EdgeIntentDirected ==
    /\ \A c \in pending :
          c.op = "add_edge" => c.from \in OutputPorts /\ c.to \in InputPorts
    /\ \A a \in OutputPorts, b \in InputPorts :
          /\ EdgeIntent([nodeId |-> 1, portId |-> a, isOutput |-> TRUE], b)
                = [from |-> a, to |-> b]
          /\ EdgeIntent([nodeId |-> 1, portId |-> b, isOutput |-> FALSE], a)
                = [from |-> a, to |-> b]

\* an addEdge intent issued by a reversed drag (started on an input port)
C3_Witness ==
    /\ connectingFrom # <<>>
    /\ ~connectingFrom[1].isOutput
    /\ last.handler = "onPortMouseUp"
    /\ last.issued.op = "add_edge"
    /\ last.issued.to = connectingFrom[1].portId
    /\ last.issued \in pending

\* C4: draw_order is a permutation of exactly the live node ids of the local
\* graph store, in every reachable state.
C4_DrawOrderPermutation ==
    /\ Range(graph.draw_order) = DOMAIN graph.nodes
    /\ Len(graph.draw_order) = Cardinality(DOMAIN graph.nodes)

StrictlyInside(p, o) ==
    p.x > o.min.x /\ p.x < o.max.x /\ p.y > o.min.y /\ p.y < o.max.y

InteriorPoints(path) == {path[i] : i \in 2..(Len(path) - 1)}

Docked(p, r) == Manhattan(p, pStartOf(r)) <= 10 \/ Manhattan(p, pEndOf(r)) <= 10

\* C5: no interior point of a returned path lies strictly inside an obstacle,
\* unless it is within 5 units (manhattan) of an outset anchor
C5_InteriorPointsClear ==
    router.pc = "done" =>
        \A p \in InteriorPoints(router.path) : \A o \in Range(router.obstacles) :
            StrictlyInside(p, o) => Docked(p, router)

\* a route was found past obstacles, one of its interior points docking
\* inside an obstacle and another one lying clear of every obstacle
C5_Witness ==
    /\ router.pc = "done"
    /\ router.found
    /\ \E p \in InteriorPoints(router.path) :
          \E o \in Range(router.obstacles) : StrictlyInside(p, o)
    /\ \E p \in InteriorPoints(router.path) : ~Docked(p, router)

\* C6: with the open set exhausted the path returned is the two raw anchors;
\* no read of the search is undefined and no returned path is empty
C6_FallbackIsRawAnchors ==
    /\ router.pc = "done" => Len(router.path) >= 2
    /\ router.pc = "done" /\ ~router.found => router.path = <<router.start, router.end>>
    /\ router.pc = "search" =>
          \A k \in 1..Len(router.openSet) :
              /\ <<router.openSet[k].x, router.openSet[k].y>> \in DOMAIN router.gScore
              /\ router.openSet[k].x \in 1..Len(router.xs)
              /\ router.openSet[k].y \in 1..Len(router.ys)

\* the search ran, found every way to the end cell blocked, and fell back
C6_Witness ==
    /\ router.pc = "done"
    /\ ~router.found
    /\ router.cameFrom # EmptyMap
    /\ router.path = <<router.start, router.end>>
    /\ pStartOf(router) # pEndOf(router)

MouseUpHandlers == {"onMouseUp", "onPortMouseUp/onMouseUp"}

\* C7: a pointer-up that ends the drag of a node issues exactly one
\* updateNodePosition intent carrying that node's position in the local store
\* at the moment of pointer-up (a node that a snapshot has removed from the
\* store has no such position, and nothing is issued for it); pointer-moves
\* change the store only locally and issue nothing.
C7_DragEndCommitsLivePosition ==
    [][/\ (last'.handler \in MouseUpHandlers /\ draggingNodeId # NoNode) =>
             IF draggingNodeId \in DOMAIN graph.nodes
             THEN \E c \in pending' \ pending :
                     /\ pending' = pending \cup {c}
                     /\ c.op = "update_node_position"
                     /\ c.stage = "sent"
                     /\ c.node = draggingNodeId
                     /\ <<c.x, c.y>> = graph.nodes[draggingNodeId].position
             ELSE pending' = pending
       /\ last'.handler = "onMouseMove" => pending' = pending /\ server' = server]_vars

\* a drag that moved the node away from the position the collaborator holds
\* has just been ended: its commit is in flight with the local position
C7_Witness ==
    /\ last.handler = "onMouseUp"
    /\ last.issued.op = "update_node_position"
    /\ last.issued \in pending
    /\ last.issued.node \in DOMAIN server.graph.nodes
    /\ server.graph.nodes[last.issued.node].position # <<last.issued.x, last.issued.y>>
    /\ last.issued.y # 0

\* C8: while a node is dragged, a pointer-move with screen delta (mx, my) at
\* zoom z moves every selected node by (mx / z, my / z) and no other node.
C8_MoveDragsSelection ==
    [][\A p \in ClientPts, m \in Moves :
          (draggingNodeId # NoNode /\ OnMouseMove(p[1], p[2], m[1], m[2])) =>
             \A n \in DOMAIN graph.nodes :
                graph'.nodes[n].position =
                   IF n \in selectedNodeIds
                   THEN <<graph.nodes[n].position[1] + DivZoom(m[1], zoom),
                          graph.nodes[n].position[2] + DivZoom(m[2], zoom)>>
                   ELSE graph.nodes[n].position]_vars

\* C9: when a graph snapshot arrives, the local store becomes exactly that
\* snapshot; no local edit survives and nothing is merged.
C9_SnapshotReplacesStore ==
    (last.handler = "settle" /\ last.settled.op = "get_graph" /\ last.settled.stage = "ok")
        => graph = last.settled.reply

\* a snapshot has just overwritten a locally dragged position
C9_Witness ==
    /\ last.handler = "settle"
    /\ last.settled.op = "get_graph"
    /\ last.settled.stage = "ok"
    /\ \E n \in DOMAIN graph.nodes \cap DOMAIN last.before.nodes :
          last.before.nodes[n].position # graph.nodes[n].position

MutatingOps ==
    {"add_node", "add_edge", "update_node_position", "bring_to_front", "delete_items",
     "paste_items", "undo", "redo", "set_connection_wire_style",
     "set_all_connection_wire_styles"}

LocallyAppliedOps == {"update_node_position", "bring_to_front"}

\* the handler awaiting a call has just resumed on its acknowledgement
Acked(ops) ==
    last.handler = "settle" /\ last.settled.stage = "ok" /\ last.settled.op \in ops

ErrorTexts == {"Error: ", "Init Error: "}

\* C11: whenever a round-trip rejects, the handler that awaited it leaves an
\* error message in the displayed status
C11_RejectSurfacesStatus ==
    (last.handler = "settle" /\ last.settled.stage = "err") => status.text \in ErrorTexts

\* the rejection of c resumes onPortMouseUp after its try block
ResumesPortMouseUp(c) ==
    c.op = "add_edge" \/ (c.op = "get_graph" /\ c.after = "clearConnect")

\* C12: when a round-trip rejects, the handler resumes (nothing is thrown
\* past it), the local graph store is the one found at the rejection, the
\* pointer-up handler still clears every gesture and the port handler still
\* ends the connection
C12_RejectKeepsStoreAndEndsGesture ==
    [][\A c \in pending :
          (c.stage = "err" /\ Settle(c)) =>
             /\ graph' = graph
             /\ c.op = "update_node_position" =>
                   /\ ~isDraggingCanvas' /\ draggingNodeId' = NoNode /\ ~isBoxSelecting'
                   /\ connectingFrom' = <<>> /\ tempEdgeEnd' = <<>>
             /\ ResumesPortMouseUp(c) => connectingFrom' = <<>> /\ tempEdgeEnd' = <<>>
             /\ (c.op # "update_node_position" /\ ~ResumesPortMouseUp(c)) =>
                   UNCHANGED gestureVars]_vars

\* a rejected commit has settled: the dragged position stays in the store,
\* away from the one the collaborator holds, and no gesture is active
C12_Witness ==
    /\ last.handler = "settle"
    /\ last.settled.op = "update_node_position"
    /\ last.settled.stage = "err"
    /\ last.settled.node \in DOMAIN graph.nodes \cap DOMAIN server.graph.nodes
    /\ graph.nodes[last.settled.node].position
          # server.graph.nodes[last.settled.node].position
    /\ ActiveGestures = {}

\* the selection rectangle in world coordinates: its low and high corner
RectLow ==
    LET s == screenToWorld(boxStart.x, boxStart.y)
        e == screenToWorld(boxEnd.x, boxEnd.y)
    IN Vec2(Min(s.x, e.x), Min(s.y, e.y))
RectHigh ==
    LET s == screenToWorld(boxStart.x, boxStart.y)
        e == screenToWorld(boxEnd.x, boxEnd.y)
    IN Vec2(Max(s.x, e.x), Max(s.y, e.y))

NodeLow(n) == Vec2(graph.nodes[n].position[1], graph.nodes[n].position[2])
NodeHigh(n) ==
    Vec2(graph.nodes[n].position[1] + graph.nodes[n].size[1],
         graph.nodes[n].position[2] + graph.nodes[n].size[2])

\* the nodes whose bounding box and the selection rectangle overlap
Intersecting ==
    {n \in DOMAIN graph.nodes :
        /\ NodeLow(n).x < RectHigh.x /\ NodeHigh(n).x > RectLow.x
        /\ NodeLow(n).y < RectHigh.y /\ NodeHigh(n).y > RectLow.y}

\* the nodes whose bounding box lies wholly in the selection rectangle
Contained ==
    {n \in DOMAIN graph.nodes :
        /\ RectLow.x <= NodeLow(n).x /\ NodeHigh(n).x <= RectHigh.x
        /\ RectLow.y <= NodeLow(n).y /\ NodeHigh(n).y <= RectHigh.y}

\* a pointer-up that runs its box-select block in this step
BoxSelectEnds ==
    isBoxSelecting /\ last'.handler \in MouseUpHandlers /\ pending' = pending

\* C13: on the pointer-up ending a box-select the new selection is the old
\* one united with the nodes whose bounding box intersects the rectangle
C13_BoxSelectUnion ==
    [][BoxSelectEnds => selectedNodeIds' = selectedNodeIds \cup Intersecting]_vars

\* a box-select has just ended that added a node to a selection holding a
\* node outside the rectangle
C13_Witness ==
    /\ last.handler = "onMouseUp"
    /\ boxStart # boxEnd
    /\ ~isBoxSelecting
    /\ Intersecting # {}
    /\ Intersecting \subseteq selectedNodeIds
    /\ selectedNodeIds \ Intersecting # {}

\* C14 as stated: the box-select adds exactly the nodes the rectangle fully
\* contains, never a node it does not fully contain
C14_AddsExactlyContained ==
    [][BoxSelectEnds => selectedNodeIds' = selectedNodeIds \cup Contained]_vars

\* C14 (amended): every node the rectangle fully contains is added and no node
\* the rectangle does not touch is, so a rectangle that contains X and Y and
\* stays clear of Z adds exactly {X, Y}; a node the rectangle overlaps in part
\* is added as well; the selection kept by shift at pointer-down is preserved
C14_AddsContainedAndOverlapped ==
    [][/\ BoxSelectEnds =>
             /\ Contained \subseteq selectedNodeIds'
             /\ (Intersecting \ Contained) \subseteq selectedNodeIds'
             /\ selectedNodeIds' \ selectedNodeIds \subseteq Intersecting
             /\ selectedNodeIds \subseteq selectedNodeIds'
       /\ \A p \in SelectPts :
             OnMouseDown(0, TRUE, p[1], p[2]) => selectedNodeIds' = selectedNodeIds]_vars

\* a box-select has ended whose rectangle contains two nodes and overlaps the
\* third in part: all three are selected
C14_Witness ==
    /\ last.handler = "onMouseUp"
    /\ boxStart # boxEnd
    /\ ~isBoxSelecting
    /\ Cardinality(Contained) = 2
    /\ Intersecting \ Contained # {}
    /\ Intersecting \subseteq selectedNodeIds

\* C15: from Idle a pointer-down on the empty canvas with the secondary or
\* middle button enters Panning and keeps the selection; with the primary
\* button it enters BoxSelecting with an empty rectangle at the pointer, and
\* clears the selection if and only if shift is not held
C15_CanvasDownEntersGesture ==
    [][\A b \in Buttons, sh \in BOOLEAN, p \in SelectPts :
          (ActiveGestures = {} /\ OnMouseDown(b, sh, p[1], p[2])) =>
             IF b \in {1, 2}
             THEN /\ isDraggingCanvas' /\ ~isBoxSelecting'
                  /\ draggingNodeId' = NoNode /\ connectingFrom' = <<>>
                  /\ selectedNodeIds' = selectedNodeIds
             ELSE /\ isBoxSelecting' /\ ~isDraggingCanvas'
                  /\ draggingNodeId' = NoNode /\ connectingFrom' = <<>>
                  /\ boxStart' = Vec2(p[1], p[2])
                  /\ boxEnd' = Vec2(p[1], p[2])
                  /\ selectedNodeIds' = (IF sh THEN selectedNodeIds ELSE {})]_vars

\* the first event was a shift-held primary pointer-down away from the
\* origin: box-selecting, empty rectangle at the pointer, selection kept
C15_Witness ==
    /\ last.handler = "onMouseDown"
    /\ events = 1
    /\ isBoxSelecting
    /\ ~isDraggingCanvas
    /\ boxStart = boxEnd
    /\ boxStart # Vec2(0, 0)
    /\ selectedNodeIds # {}

\* C16: a pointer-down on a node body makes it the dragged node; with shift
\* its membership in the selection is toggled and the other members stay,
\* without shift the selection becomes {node} unless the node is selected
\* already, in which case it stays; the settlement of the bring-to-front
\* request, acknowledged or rejected, changes neither
C16_NodeDownSelects ==
    [][/\ \A sh \in BOOLEAN, n \in NodeIds :
             OnNodeMouseDown(sh, n) =>
                /\ draggingNodeId' = n
                /\ sh => /\ (n \in selectedNodeIds') = (n \notin selectedNodeIds)
                         /\ selectedNodeIds' \ {n} = selectedNodeIds \ {n}
                /\ (~sh /\ n \notin selectedNodeIds) => selectedNodeIds' = {n}
                /\ (~sh /\ n \in selectedNodeIds) => selectedNodeIds' = selectedNodeIds
       /\ \A c \in pending :
             (c.op = "bring_to_front" /\ Settle(c)) =>
                UNCHANGED <<selectedNodeIds, draggingNodeId>>]_vars

\* a shift-held press has just taken the pressed node out of a selection
\* that keeps its other member
C16_Witness ==
    /\ last.handler = "onNodeMouseDown"
    /\ draggingNodeId # NoNode
    /\ draggingNodeId \notin selectedNodeIds
    /\ selectedNodeIds # {}

\* the ids of seq other than n, in their order
OthersOf(seq, n) == SelectSeq(seq, LAMBDA x : x # n)

\* C17: a pointer-down on a node body issues one bringToFront request for the
\* node; when its acknowledgement settles the node's id is the last element
\* of draw_order, once, and the other ids keep their relative order; when its
\* rejection settles draw_order is unchanged
C17_BringToFrontMovesLast ==
    [][/\ \A sh \in BOOLEAN, n \in NodeIds :
             OnNodeMouseDown(sh, n) =>
                \E c \in pending' \ pending :
                   /\ pending' = pending \cup {c}
                   /\ c.op = "bring_to_front"
                   /\ c.stage = "sent"
                   /\ c.node = n
       /\ \A c \in pending :
             (c.op = "bring_to_front" /\ Settle(c)) =>
                IF c.stage = "ok"
                THEN /\ graph'.draw_order # <<>>
                     /\ graph'.draw_order[Len(graph'.draw_order)] = c.node
                     /\ Len(OthersOf(graph'.draw_order, c.node)) = Len(graph'.draw_order) - 1
                     /\ OthersOf(graph'.draw_order, c.node) = OthersOf(graph.draw_order, c.node)
                ELSE graph'.draw_order = graph.draw_order]_vars

\* an acknowledged bring-to-front has settled: the node is drawn last, after
\* a node with a greater id
C17_Witness ==
    /\ last.handler = "settle"
    /\ last.settled.op = "bring_to_front"
    /\ last.settled.stage = "ok"
    /\ Len(graph.draw_order) >= 2
    /\ graph.draw_order[Len(graph.draw_order)] = last.settled.node
    /\ graph.draw_order[1] > last.settled.node

\* the nodes of the list handed to findPortPosition, and those owning a port
ListedNodes ==
    {n \in DOMAIN graph.nodes : graph.draw_order = <<>> \/ n \in Range(graph.draw_order)}
OwnersOf(portId) ==
    {n \in ListedNodes :
        portId \in Range(graph.nodes[n].inputs) \cup Range(graph.nodes[n].outputs)}

\* C18: findPortPosition gives the absent result exactly for a port id that
\* no node of the list owns (and a result for every port id); the template
\* draws an edge only if both its ends are located, and the temporary edge
\* only if its source port is
C18_AbsentPortsSkipped ==
    /\ \A p \in {q.portId : q \in RenderPorts} :
          LET found == findPortPosition(graph, getNodes(graph), p)
          IN /\ Len(found) \in {0, 1}
             /\ (found = <<>>) = (OwnersOf(p) = {})
    /\ drawn.rendered =>
          /\ \A e \in DOMAIN graph.edges :
                (e \in DOMAIN drawn.edges) =
                   (OwnersOf(graph.edges[e].from) # {} /\ OwnersOf(graph.edges[e].to) # {})
          /\ (drawn.temp # <<>>) =
                (/\ connectingFrom # <<>>
                 /\ tempEdgeEnd # <<>>
                 /\ OwnersOf(connectingFrom[1].portId) # {})

\* the template has been evaluated on a store whose edge has lost an end and
\* with a connection whose source port is gone: neither is drawn
C18_Witness ==
    /\ drawn.rendered
    /\ DOMAIN graph.edges # {}
    /\ DOMAIN drawn.edges = {}
    /\ connectingFrom # <<>>
    /\ tempEdgeEnd # <<>>
    /\ drawn.temp = <<>>

\* C19: whichever way getSmartOrthogonalPath returns (route found, anchors
\* too close to route, no route), the first point of the path is the start
\* anchor it was given and the last point is the end anchor, not the outset
\* points
C19_EndsAreTrueAnchors ==
    router.pc = "done" =>
        /\ Len(router.path) >= 2
        /\ router.path[1] = router.start
        /\ router.path[Len(router.path)] = router.end

\* a route was found around an obstacle: the path has routed points between
\* the two anchors, and the outset points differ from the anchors
C19_Witness ==
    /\ router.pc = "done"
    /\ router.found
    /\ Len(router.path) >= 4
    /\ router.path[1] = router.start
    /\ router.path[Len(router.path)] = router.end
    /\ router.path[2] # router.start

\* consecutive points of a path share x or share y
AxisAligned(path) ==
    \A i \in 1..(Len(path) - 1) : path[i].x = path[i + 1].x \/ path[i].y = path[i + 1].y

\* C20: when the grid search succeeds, every segment of the returned path is
\* axis-aligned, the segment from the true start anchor to the first routed
\* point and the segment from the last routed point to the true end anchor
\* included, wherever the port anchors lie
C20_SegmentsAxisAligned ==
    router.pc = "done" /\ router.found => AxisAligned(router.path)

\* the points of the segment p -> q at the K + 1 equal subdivisions, K the
\* larger of its two extents, with every coordinate multiplied by K
SegmentScale(p, q) == Max(1, Max(Abs(q.x - p.x), Abs(q.y - p.y)))
SegmentPoints(p, q) ==
    LET K == SegmentScale(p, q)
    IN {Vec2(p.x * K + k * (q.x - p.x), p.y * K + k * (q.y - p.y)) : k \in 0..K}

\* pt (scaled by K) lies strictly inside the rectangle o
ScaledInside(pt, o, K) ==
    /\ o.min.x * K < pt.x /\ pt.x < o.max.x * K
    /\ o.min.y * K < pt.y /\ pt.y < o.max.y * K

\* pt (scaled by K) is less than the docking radius from one of the two
\* anchors or one of the two outset anchors
ScaledDocked(pt, r, K) ==
    \E a \in {r.start, r.end, pStartOf(r), pEndOf(r)} :
        Abs(pt.x - a.x * K) + Abs(pt.y - a.y * K) < DockRadius * K

SegmentCrosses(p, q, o, r) ==
    \E pt \in SegmentPoints(p, q) :
        ScaledInside(pt, o, SegmentScale(p, q)) /\ ~ScaledDocked(pt, r, SegmentScale(p, q))

CrossedSegments(r) ==
    {i \in 1..(Len(r.path) - 1) :
        \E k \in 1..Len(r.obstacles) :
            SegmentCrosses(r.path[i], r.path[i + 1], r.obstacles[k], r)}

\* C21: no segment of a routed path has a point strictly inside an obstacle
\* rectangle, unless that point is within the docking radius of an anchor;
\* this is about every point of every segment, the segments joining the true
\* anchors to the routed points included
C21_NoSegmentCrossesObstacle ==
    router.pc = "done" /\ router.found => CrossedSegments(router) = {}

\* C22: the simplification step is idempotent: applied to a sequence it has
\* produced, it gives that sequence again
C22_SimplifyIdempotent ==
    router.pc = "simplified" => Simplified(router.path) = router.path

C24_ZoomWithinRange == ZoomMin10 <= zoom /\ zoom <= ZoomMax10

\* a wheel event has asked for more than the range allows and the zoom
\* stands at the end of the range
C24_Witness ==
    /\ last.handler = "onWheel"
    /\ zoom \in {ZoomMin10, ZoomMax10}
    /\ pan # Vec2(0, 0)

\* the coordinates of the model are whole numbers: a pan is cut to a whole
\* unit and a world coordinate to half a unit, so one unit of pan at the
\* smallest zoom, and one half unit more on each side, is what two world
\* coordinates of the same point can differ by
ZoomEpsilon == (20 \div ZoomMin10) + 2

\* C25: for every zoom gesture, clamped or not, the world coordinate under
\* the cursor computed with the pan and zoom of before and the one computed
\* with the pan and zoom of after differ by less than a fixed epsilon
C25_ZoomKeepsPointUnderCursor ==
    [][\A f \in ViewFactors, p \in ViewPts :
          OnWheel(TRUE, f[1], f[2], 0, 0, p[1], p[2]) =>
             LET before == ScreenToWorldAt(p[1], p[2], pan, zoom)
                 after == ScreenToWorldAt(p[1], p[2], pan', zoom')
             IN /\ Abs(after.x - before.x) < ZoomEpsilon
                /\ Abs(after.y - before.y) < ZoomEpsilon]_vars

\* the view has been zoomed in by two at a cursor away from the origin: the
\* pan has moved so that the cursor's world point is where it was
C25_Witness ==
    /\ last.handler = "onWheel"
    /\ zoom = 20
    /\ pan = Vec2(-30000, 12000)
    /\ ScreenToWorldAt(30000, -12000, pan, zoom) = ScreenToWorldAt(30000, -12000, Vec2(0, 0), 10)

\* C26: a wheel event without a modifier key pans: the pan changes by
\* (-deltaX, -deltaY); the zoom, the selection, the store and the gesture
\* state are left alone
C26_PlainWheelPans ==
    [][\A d \in ViewDeltas :
          OnWheel(FALSE, 1, 1, d[1], d[2], 0, 0) =>
             /\ pan' = Vec2(pan.x - d[1], pan.y - d[2])
             /\ UNCHANGED <<zoom, selectedNodeIds, graph, gestureVars>>]_vars

\* a plain wheel event has been handled while a node is held and selected
C26_Witness ==
    /\ last.handler = "onWheel"
    /\ zoom = 10
    /\ pan = Vec2(-120, 40)
    /\ draggingNodeId # NoNode
    /\ selectedNodeIds # {}

\* C30: while a node is dragged, its position is its position at
\* pointer-down plus the sum, over the pointer-moves of the drag, of the
\* screen delta divided by the zoom of the moment, whatever wheel events have
\* done to pan and zoom in between
C30_DragAccumulatesRelativeMotion ==
    (draggingNodeId # NoNode /\ dragStart.id = draggingNodeId
        /\ draggingNodeId \in DOMAIN graph.nodes) =>
        graph.nodes[draggingNodeId].position =
            <<dragStart.position[1] + dragStart.sum[1],
              dragStart.position[2] + dragStart.sum[2]>>

\* a drag of two pointer-moves, (3, -2) at zoom 1 and (-50, 70) at zoom 2,
\* with a zoom gesture at a cursor away from the origin between them
C30_Witness ==
    /\ draggingNodeId # NoNode
    /\ dragStart.id = draggingNodeId
    /\ zoom = 20
    /\ pan = Vec2(-30000, 12000)
    /\ dragStart.sum = <<DivZoom(3, 10) + DivZoom(-50, 20), DivZoom(-2, 10) + DivZoom(70, 20)>>
    /\ graph.nodes[draggingNodeId].position =
          <<dragStart.position[1] + dragStart.sum[1],
            dragStart.position[2] + dragStart.sum[2]>>

\* the anchor findPortPosition finds for port p in the store
AnchorOf(p) == findPortPosition(graph, getNodes(graph), p)[1]

\* the height the claims give the anchor of port i (from 1) of n ports:
\* y + 20 + (i - 0.5) * (h - 40) / n, in half units
AnchorHeight(node, i, n) ==
    node.position[2] + 40 + ((2 * i - 1) * (node.size[2] - 80)) \div (2 * n)

\* C27 as stated: the anchor of input i of n lies on the left edge of the
\* node, at x, and that of output j of m on the right edge, at x + w, each at
\* height y + 20 + (i + 0.5) * (h - 40) / n counted from i = 0
C27_AnchorsOnEdges ==
    \A k \in DOMAIN graph.nodes :
        LET node == graph.nodes[k] IN
        /\ \A i \in 1..Len(node.inputs) :
              AnchorOf(node.inputs[i])
                 = Vec2(node.position[1], AnchorHeight(node, i, Len(node.inputs)))
        /\ \A j \in 1..Len(node.outputs) :
              AnchorOf(node.outputs[j])
                 = Vec2(node.position[1] + node.size[1],
                        AnchorHeight(node, j, Len(node.outputs)))

\* C27, corrected: the anchor of an input lies one world unit to the left of
\* the left edge, at x - 1, and that of an output one world unit to the right
\* of the right edge, at x + w + 1; the heights are as stated
C27_AnchorsBesideEdges ==
    \A k \in DOMAIN graph.nodes :
        LET node == graph.nodes[k] IN
        /\ \A i \in 1..Len(node.inputs) :
              AnchorOf(node.inputs[i])
                 = Vec2(node.position[1] - 2, AnchorHeight(node, i, Len(node.inputs)))
        /\ \A j \in 1..Len(node.outputs) :
              AnchorOf(node.outputs[j])
                 = Vec2(node.position[1] + node.size[1] + 2,
                        AnchorHeight(node, j, Len(node.outputs)))

\* the temporary edge has been drawn from the anchor of the last of three
\* outputs of a node taller than its padding
C27_Witness ==
    /\ drawn.rendered
    /\ Len(drawn.temp) = 1
    /\ connectingFrom[1].isOutput
    /\ \E k \in DOMAIN graph.nodes :
          LET node == graph.nodes[k] IN
          /\ Len(node.outputs) = 3
          /\ node.size[2] > 80
          /\ connectingFrom[1].portId = node.outputs[3]
          /\ drawn.temp[1].start
                = Vec2(node.position[1] + node.size[1] + 2,
                       node.position[2] + 40 + (5 * (node.size[2] - 80)) \div 6)

\* C28: for every node with at least one input, whatever its height, the
\* anchor of each input lies strictly between the top edge and the bottom
\* edge of the node, and the anchors' y-coordinates strictly increase with
\* the index of the input
C28_InputAnchorsInsideAndIncreasing ==
    \A k \in DOMAIN graph.nodes :
        LET node == graph.nodes[k] IN
        /\ \A i \in 1..Len(node.inputs) :
              /\ node.position[2] < AnchorOf(node.inputs[i]).y
              /\ AnchorOf(node.inputs[i]).y < node.position[2] + node.size[2]
        /\ \A i, j \in 1..Len(node.inputs) :
              i < j => AnchorOf(node.inputs[i]).y < AnchorOf(node.inputs[j]).y

\* C29: for every start and end, the Cubic style gives the four points
\* start, c1, c2, end with c1 = (start.x + d/2, start.y) and
\* c2 = (end.x - d/2, end.y), d being the horizontal distance between start
\* and end, also when end lies to the left of start
C29_CubicControlPoints ==
    router.pc = "Cubic" =>
        LET d == Abs(router.end.x - router.start.x) IN
        router.path = <<router.start,
                        Vec2(router.start.x + d \div 2, router.start.y),
                        Vec2(router.end.x - d \div 2, router.end.y),
                        router.end>>

\* the step is refreshGraph putting a collaborator snapshot in the store
SnapshotStep == last'.handler = "settle" /\ last'.settled.op = "get_graph"

\* C31: a step that is not the replacement of the store by a collaborator
\* snapshot adds and removes no node and no edge and changes no node's port
\* lists or size; it changes positions only in a pointer-move, and only of
\* the node being dragged, and the drawing order only when a bring-to-front
\* is acknowledged, and then by moving that node to the end
C31_LocalMutationsFrame ==
    [][~SnapshotStep =>
          /\ DOMAIN graph'.nodes = DOMAIN graph.nodes
          /\ graph'.edges = graph.edges
          /\ \A n \in DOMAIN graph.nodes :
                /\ graph'.nodes[n].id = graph.nodes[n].id
                /\ graph'.nodes[n].inputs = graph.nodes[n].inputs
                /\ graph'.nodes[n].outputs = graph.nodes[n].outputs
                /\ graph'.nodes[n].size = graph.nodes[n].size
                /\ graph'.nodes[n].position # graph.nodes[n].position
                      => last'.handler = "onMouseMove" /\ draggingNodeId = n
          /\ graph'.draw_order # graph.draw_order
                => /\ last'.handler = "settle"
                   /\ last'.settled.op = "bring_to_front"
                   /\ graph'.draw_order
                         = Append(SeqFilterOut(graph.draw_order, last'.settled.node),
                                  last'.settled.node)]_vars

\* a pointer-move has moved the dragged node away from the position the
\* collaborator holds, and an acknowledged bring-to-front has reordered the
\* store locally
C31_Witness ==
    /\ last.handler = "onMouseMove"
    /\ draggingNodeId \in DOMAIN graph.nodes
    /\ draggingNodeId \in DOMAIN server.graph.nodes
    /\ graph.nodes[draggingNodeId].position # server.graph.nodes[draggingNodeId].position
    /\ graph.draw_order # InitialServerGraph.draw_order

\* the calls a step has put in flight
NewCalls == {c \in pending' : c.stage = "sent"} \ pending

\* the step issues exactly the call c, and c is what the step recorded
IssuesExactly(c) == NewCalls = {c} /\ last'.issued = c

\* C32: a key press with Ctrl or Cmd and Z issues exactly an undo without
\* shift and exactly a redo with shift; with Ctrl or Cmd and C it issues
\* copy_items for the selection, with Ctrl or Cmd and V paste_items with
\* the clipboard last copied at the last world position of the pointer,
\* with Delete or Backspace delete_items for the selection (copy and delete
\* when something is selected, paste when something has been copied); every
\* other key, and these keys without what they act on, issue nothing
C32_KeyDispatch ==
    [][\A k \in Keys, md \in BOOLEAN, sh \in BOOLEAN :
          OnKeyDown(k, md, sh) =>
             /\ pending \subseteq pending'
             /\ IF md /\ k = "z"
                THEN \E c \in NewCalls :
                        /\ IssuesExactly(c)
                        /\ c.op = (IF sh THEN "redo" ELSE "undo")
                ELSE IF md /\ k = "c" /\ selectedNodeIds # {}
                THEN \E c \in NewCalls :
                        /\ IssuesExactly(c)
                        /\ c.op = "copy_items"
                        /\ c.ids = selectedNodeIds
                ELSE IF md /\ k = "v" /\ internalClipboard # <<>>
                THEN \E c \in NewCalls :
                        /\ IssuesExactly(c)
                        /\ c.op = "paste_items"
                        /\ c.json = internalClipboard[1]
                        /\ Vec2(c.x, c.y) = lastMousePos
                ELSE IF ~(md /\ k \in {"z", "c", "v"}) /\ k \in {"Delete", "Backspace"}
                        /\ selectedNodeIds # {}
                THEN \E c \in NewCalls :
                        /\ IssuesExactly(c)
                        /\ c.op = "delete_items"
                        /\ c.ids = selectedNodeIds
                ELSE pending' = pending]_vars

\* Ctrl+Shift+Z has issued a redo while a paste of the copied clipboard at
\* the pointer's last position, away from the origin, is in flight
C32_Witness ==
    /\ last.handler = "onKeyDown"
    /\ last.issued.op = "redo"
    /\ \E c \in pending :
          c.op = "paste_items" /\ c.json = 1 /\ Vec2(c.x, c.y) = Vec2(6, -4)

\* C33: Delete or Backspace with something selected issues one delete_items
\* call carrying exactly the selected node ids (it names no edge), and with
\* nothing selected issues nothing; when the call is acknowledged the
\* selection becomes empty and a refresh of the graph is issued; when it is
\* rejected the selection stays as it is and nothing is issued
C33_DeleteSelection ==
    [][/\ \A k \in {"Delete", "Backspace"} :
             OnKeyDown(k, FALSE, FALSE) =>
                IF selectedNodeIds # {}
                THEN \E c \in NewCalls :
                        /\ IssuesExactly(c)
                        /\ c.op = "delete_items"
                        /\ c.ids = selectedNodeIds
                        /\ c.edge = BlankCall.edge
                ELSE pending' = pending
       /\ \A c \in pending :
             c.op = "delete_items" /\ Settle(c) =>
                IF c.stage = "ok"
                THEN /\ selectedNodeIds' = {}
                     /\ \E r \in pending' \ pending : r.op = "get_graph" /\ r.stage = "sent"
                ELSE /\ selectedNodeIds' = selectedNodeIds
                     /\ pending' = pending \ {c}]_vars

\* the delete of node 1 alone has been acknowledged: the selection is empty,
\* the refresh is in flight and the collaborator has node 2 left
C33_Witness ==
    /\ last.handler = "settle"
    /\ last.settled.op = "delete_items"
    /\ last.settled.stage = "ok"
    /\ last.settled.ids = {1}
    /\ last.issued.op = "get_graph"
    /\ selectedNodeIds = {}
    /\ DOMAIN server.graph.nodes = {2}

\* the node being dragged is no longer in the store
DraggedNodeGone == draggingNodeId # NoNode /\ draggingNodeId \notin DOMAIN graph.nodes

\* C34: while the node being dragged is not in the store, a pointer-move
\* leaves the store as it is, and a pointer-up issues no call, reports
\* nothing in the status and leaves no gesture under way
C34_DragOfMissingNode ==
    [][DraggedNodeGone =>
          /\ \A m \in ViewMoves : OnMouseMove(0, 0, m[1], m[2]) => graph' = graph
          /\ OnMouseUp =>
                /\ pending' = pending
                /\ status' = status
                /\ graph' = graph
                /\ draggingNodeId' = NoNode
                /\ ~isDraggingCanvas' /\ ~isBoxSelecting'
                /\ connectingFrom' = <<>> /\ tempEdgeEnd' = <<>>]_vars

\* a node was pressed, deleted and the pointer moved; the pointer-up that
\* followed found the node gone and issued nothing
C34_Witness ==
    /\ last.handler = "onMouseUp"
    /\ last.issued = BlankCall
    /\ events = 4
    /\ dragStart.id # NoNode
    /\ dragStart.id \notin DOMAIN graph.nodes
    /\ dragStart.sum # <<0, 0>>
    /\ draggingNodeId = NoNode

\* C35: from the pointer-up that ends the drag of a node, that is while its
\* update_node_position call is in flight or acknowledged, a pointer-move
\* does not change the node's position; and when the acknowledged call
\* settles, the node's position in the store is the position the call
\* carried
C35_ReleasedNodeStays ==
    [][\A c \in pending :
          c.op = "update_node_position" /\ c.node \in DOMAIN graph.nodes =>
             /\ last'.handler = "onMouseMove"
                   => graph'.nodes[c.node].position = graph.nodes[c.node].position
             /\ c.stage = "ok" /\ Settle(c)
                   => graph.nodes[c.node].position = <<c.x, c.y>>]_vars

\* the calls in flight that a pointer-up handler is awaiting
UpCalls == {c \in pending : c.after \in {"mouseUpRest", "addEdge", "clearConnect"}}

\* C36: when the call a pointer-up is awaiting settles right after a
\* pointer-down, so that the gesture of that pointer-down began while the
\* call was pending and no pointer-up has come since, the settling handler
\* leaves that gesture as the pointer-down set it: the box selection or the
\* pan of a canvas pointer-down, the dragged node of a node pointer-down,
\* the connection of a port pointer-down
C36_SettleKeepsLaterGesture ==
    [][\A c \in UpCalls :
          Settle(c) =>
             /\ last.handler = "onMouseDown"
                   => /\ isBoxSelecting' = isBoxSelecting
                      /\ isDraggingCanvas' = isDraggingCanvas
             /\ last.handler = "onNodeMouseDown"
                   => draggingNodeId' = draggingNodeId
             /\ last.handler = "onPortMouseDown"
                   => connectingFrom' = connectingFrom /\ tempEdgeEnd' = tempEdgeEnd]_vars

\* C37: when no response is outstanding any more, the refreshes having been
\* answered in whatever order, the store is the collaborator's newest state
\* (no handler of this scenario changes the store locally, and every call
\* that changes the collaborator's graph is followed by a refresh)
C37_NewestSnapshotWins ==
    (pending = {} /\ last.handler = "settle" /\ last.settled.op = "get_graph")
        => graph = server.graph

\* C38: every id in the selection is the id of a node of the store
C38_SelectionWithinStore == selectedNodeIds \subseteq DOMAIN graph.nodes

\* the entry the turn of the loop takes from the open set, and the entries
\* it pushes
Expanded == router.openSet[Shifted(router.openSet)]
Pushed ==
    {router'.openSet[i] : i \in Len(router.openSet)..Len(router'.openSet)}

\* is nPos within buffer of some obstacle
NearAny(nPos, obstacles, buffer) == NearObstacles(nPos, obstacles, buffer) # {}

\* C40: the cost of a step of the grid search to a neighbour is the
\* manhattan distance to it, times 3 when the neighbour lies within buffer
\* of any obstacle, however many, plus 150 (300 half units) when the
\* direction of the step differs from the direction the cell was entered in
C40_StepCostAsStated ==
    [][RouterExpand /\ router'.pc = "search" =>
          \A e \in Pushed :
             LET cPos == CellPos(router, <<Expanded.x, Expanded.y>>)
                 nPos == CellPos(router, <<e.x, e.y>>)
                 dist == Manhattan(nPos, cPos)
             IN router'.gScore[<<e.x, e.y>>] - router.gScore[<<Expanded.x, Expanded.y>>]
                   = dist * (IF NearAny(nPos, router.obstacles, router.buffer) THEN 3 ELSE 1)
                     + (IF e.dir # Expanded.dir THEN 300 ELSE 0)]_vars

\* the cells the backtracking visits, the end cell first
RECURSIVE BacktrackCells(_, _, _)
BacktrackCells(r, curr, fuel) ==
    IF curr \in DOMAIN r.cameFrom /\ fuel > 0
    THEN <<curr>> \o BacktrackCells(r, r.cameFrom[curr], fuel - 1)
    ELSE <<curr>>

\* the backtracking from the end cell visits no cell twice and stops at the
\* start cell
BacktrackReachesStart ==
    LET cells == BacktrackCells(router, endCell(router),
                                Len(router.xs) * Len(router.ys))
    IN /\ \A i, j \in 1..Len(cells) : i # j => cells[i] # cells[j]
       /\ cells[Len(cells)] = startCell(router)
       /\ cells[Len(cells)] \notin DOMAIN router.cameFrom

\* C39: every call of the router comes to its return: the search loop ends,
\* with the open set empty or the end cell taken from it; and when the end
\* cell was reached, the backtracking through cameFrom visits no cell twice
\* and ends at the start cell
C39_SearchTerminates ==
    <>(/\ router.pc = "done"
       /\ router.found \/ router.openSet = <<>>
       /\ router.found => BacktrackReachesStart)

\* a call has returned a route whose backtracking went through five cells
\* or more, after a search that relaxed cells more than once
C39_Witness ==
    /\ router.pc = "done"
    /\ router.found
    /\ Len(BacktrackCells(router, endCell(router), Len(router.xs) * Len(router.ys))) >= 5
    /\ BacktrackReachesStart

====
